---- MODULE Spec2Model ----
(***************************************************************************)
(* Orchestration layer of slidemaker: the Step Runner (_run_step), the     *)
(* bounded analysis pipeline (_analyze_images), the asset coordinator      *)
(* (ImageCoordinator) and the Create / Convert workflows built from them.  *)
(*                                                                         *)
(* One behaviour is one use of the layer through one entry point; `entry`  *)
(* records which one, and the parts that entry point does not touch stay   *)
(* in their idle value.                                                    *)
(***************************************************************************)
EXTENDS Integers, Sequences, FiniteSets, TLC

VARIABLES
    entry,   \* the entry point this behaviour exercises
    run,     \* the _run_step invocation in progress (of the current stage)
    calls,   \* every _analyze_images invocation started so far, oldest first
    coord,   \* the ImageCoordinator: its _cache and its generate_images calls
    wf,      \* the workflow execution (Create or Convert)
    fn,      \* one call of a synchronous function: its arguments and its outcome
    tasks    \* the API's tasks: stored status.json and background runner of each

vars == <<entry, run, calls, coord, wf, fn, tasks>>

(***************************************************************************)
(* Bounds of the exploration.                                              *)
(***************************************************************************)
MaxRetries == 3
MaxUnits == 3
MaxConcurrent == 2
MaxAnalyzerRetries == 2
MaxGenCalls == 2
MaxRequests == 3
MaxWorkflowRetries == 2
MaxPages == 2
MaxCompositionImages == 2
MaxCompositionPages == 1
\* pages times stage attempts of one Convert execution
MaxAnalyses == 4

\* Python's None
None == "None"

\* no function call, no task
IdleFn == [name |-> "", pc |-> "idle"]
NoTasks == <<>>

(***************************************************************************)
(* Step Runner: WorkflowOrchestrator._run_step                             *)
(***************************************************************************)
StepNames == {"test_step", "other_step"}
ErrorTypes == {"LLMTimeoutError", "LLMRateLimitError", "LLMAuthenticationError", "ValueError"}
Messages == {"m1", "m2"}
Values == {"v1", "v2"}
RetryDelays == {1, 2}

\* what one invocation of step_func does: return a value or raise
Returned(v) == [ok |-> TRUE, value |-> v, error_type |-> "", error |-> ""]
Raised(t, m) == [ok |-> FALSE, value |-> None, error_type |-> t, error |-> m]
NoOutcome == [ok |-> FALSE, value |-> None, error_type |-> "", error |-> ""]
Outcomes == {Returned(v) : v \in Values} \cup {Raised(t, m) : t \in ErrorTypes, m \in Messages}

NoStepError == [step_name |-> "", attempt |-> 0, original_error |-> "", error_type |-> ""]

\* WorkflowStepError(step_name=, attempt=, details={original_error, error_type})
WorkflowStepError(name, attempt, e) ==
    [step_name |-> name, attempt |-> attempt,
     original_error |-> e.error, error_type |-> e.error_type]

IdleRun ==
    [step_name |-> "", max_retries |-> 0, retry_delay |-> 0, attempt |-> 0,
     pc |-> "idle", trace |-> <<>>, result |-> None, error |-> NoStepError]

\* entering _run_step: `for attempt in range(max_retries)` runs its body only
\* for max_retries > 0; otherwise the function falls off its end (returns None)
run_step_enter(name, m, delay) ==
    [step_name |-> name, max_retries |-> m, retry_delay |-> delay, attempt |-> 0,
     pc |-> IF m > 0 THEN "call" ELSE "returned",
     trace |-> <<>>, result |-> None, error |-> NoStepError]

\* (a variant whose ceiling is off by one: max_retries retries after the first call)
run_step_attempt_extra(r, out) ==
    LET t == Append(r.trace, [ev |-> "call", out |-> out, delay |-> 0])
    IN  IF out.ok
        THEN [r EXCEPT !.pc = "returned", !.result = out.value, !.trace = t]
        ELSE IF r.attempt < r.max_retries
             THEN [r EXCEPT !.pc = "sleep", !.trace = t]
             ELSE [r EXCEPT !.pc = "raised", !.trace = t,
                            !.error = WorkflowStepError(r.step_name, r.max_retries, out)]

\* (a variant that keeps the value but goes on through the remaining attempts)
run_step_attempt_no_return(r, out) ==
    LET t == Append(r.trace, [ev |-> "call", out |-> out, delay |-> 0])
    IN  IF out.ok /\ r.attempt >= r.max_retries - 1
        THEN [r EXCEPT !.pc = "returned", !.result = out.value, !.trace = t]
        ELSE IF r.attempt < r.max_retries - 1
             THEN [r EXCEPT !.pc = "sleep", !.result = out.value, !.trace = t]
             ELSE [r EXCEPT !.pc = "raised", !.trace = t,
                            !.error = WorkflowStepError(r.step_name, r.max_retries, out)]

\* (a variant that reports the exception of the first attempt)
run_step_attempt_first_error(r, out) ==
    LET t == Append(r.trace, [ev |-> "call", out |-> out, delay |-> 0])
    IN  IF out.ok
        THEN [r EXCEPT !.pc = "returned", !.result = out.value, !.trace = t]
        ELSE IF r.attempt < r.max_retries - 1
             THEN [r EXCEPT !.pc = "sleep", !.trace = t]
             ELSE [r EXCEPT !.pc = "raised", !.trace = t,
                            !.error = WorkflowStepError(r.step_name, r.max_retries, t[1].out)]

\* (a variant that treats an authentication failure as fatal)
run_step_attempt_fatal_auth(r, out) ==
    LET t == Append(r.trace, [ev |-> "call", out |-> out, delay |-> 0])
    IN  IF out.ok
        THEN [r EXCEPT !.pc = "returned", !.result = out.value, !.trace = t]
        ELSE IF r.attempt < r.max_retries - 1 /\ out.error_type # "LLMAuthenticationError"
             THEN [r EXCEPT !.pc = "sleep", !.trace = t]
             ELSE [r EXCEPT !.pc = "raised", !.trace = t,
                            !.error = WorkflowStepError(r.step_name, r.max_retries, out)]

\* one pass of the loop body, given what step_func did in this invocation
run_step_attempt(r, out) ==
    LET t == Append(r.trace, [ev |-> "call", out |-> out, delay |-> 0])
    IN  IF out.ok
        THEN [r EXCEPT !.pc = "returned", !.result = out.value, !.trace = t]
        ELSE IF r.attempt < r.max_retries - 1
             THEN [r EXCEPT !.pc = "sleep", !.trace = t]
             ELSE [r EXCEPT !.pc = "raised", !.trace = t,
                            !.error = WorkflowStepError(r.step_name, r.max_retries, out)]

\* `await step_func(*args, **kwargs)` on an operation that suspends
run_step_await(r) == [r EXCEPT !.pc = "awaiting"]

\* (a variant whose wait grows with the attempt)
run_step_sleep_growing(r) ==
    [r EXCEPT !.pc = "call", !.attempt = @ + 1,
              !.trace = Append(@, [ev |-> "sleep", out |-> NoOutcome,
                                   delay |-> r.retry_delay * (r.attempt + 1)])]

\* await asyncio.sleep(retry_delay); continue
run_step_sleep(r) ==
    [r EXCEPT !.pc = "call", !.attempt = @ + 1,
              !.trace = Append(@, [ev |-> "sleep", out |-> NoOutcome, delay |-> r.retry_delay])]

\* the invocations of step_func made so far, and the waits
Invocations(r) == SelectSeq(r.trace, LAMBDA e : e.ev = "call")
Sleeps(r) == SelectSeq(r.trace, LAMBDA e : e.ev = "sleep")

(***************************************************************************)
(* Bounded analysis pipeline: ConversionWorkflow._analyze_images           *)
(*                                                                         *)
(* The i-th image of a call is page i of the input document; a page is the *)
(* PageDefinition the analyzer builds from the model's answer for it.      *)
(***************************************************************************)
PageNumbers == {1, 2}
NoPage == [image |-> 0, page_number |-> 0]

\* what one llm_manager.analyze_image call (and the parse of its answer) does:
\* an answer with some page_number, an error analyze_slide_image catches
\* (LLMTimeoutError, LLMError, JSONDecodeError, ValidationError), or any other
LLMOutcomes ==
    {[kind |-> "answer", page_number |-> n] : n \in PageNumbers}
        \cup {[kind |-> k, page_number |-> 0] : k \in {"llm_error", "other_error"}}

\* ImageAnalyzer._parse_llm_response: page_number = response.get("page_number", 1)
parse_llm_response(image, response) ==
    [image |-> image, page_number |-> response.page_number]

\* entering _analyze_images: the semaphore and one coroutine per image, all
\* handed to asyncio.gather
analyze_images_enter(n, k, amax) ==
    [images |-> [i \in 1 .. n |-> i],
     max_concurrent |-> k,
     analyzer_max_retries |-> amax,
     semaphore |-> k,
     unit |-> [i \in 1 .. n |-> [pc |-> "waiting", attempt |-> 0,
                                 result |-> NoPage, error |-> ""]],
     finished |-> <<>>,
     state |-> "awaiting",
     result |-> <<>>,
     error |-> <<>>]

\* `async with semaphore`: asyncio.Semaphore.acquire lets a unit in only while
\* the counter is positive; analyze_slide_image then starts its first attempt
\* (a variant that lets a unit in while the counter is not negative)
semaphore_free_at_zero(c) == c.semaphore >= 0

\* (a variant that lets every unit in)
semaphore_free_unbounded(c) == TRUE

semaphore_free(c) == c.semaphore > 0

analyze_with_semaphore_enter(c, i) ==
    [c EXCEPT !.semaphore = @ - 1,
              !.unit[i].pc = "running",
              !.unit[i].attempt = 1]

\* (a variant that gives the slot back only when the unit returned)
analyze_with_semaphore_exit_on_return(c, i, pc, page, err) ==
    [c EXCEPT !.semaphore = IF pc = "done" THEN @ + 1 ELSE @,
              !.unit[i].pc = pc,
              !.unit[i].result = page,
              !.unit[i].error = err,
              !.finished = Append(@, i)]

\* a unit leaves `async with semaphore`, by return or by exception
analyze_with_semaphore_exit(c, i, pc, page, err) ==
    [c EXCEPT !.semaphore = @ + 1,
              !.unit[i].pc = pc,
              !.unit[i].result = page,
              !.unit[i].error = err,
              !.finished = Append(@, i)]

\* (a variant whose loop allows one pass more)
analyze_slide_image_attempt_one_more(c, i, out) ==
    LET u == c.unit[i]
    IN  CASE out.kind = "answer" ->
                 analyze_with_semaphore_exit(c, i, "done",
                     parse_llm_response(c.images[i], out), "")
          [] out.kind = "llm_error" /\ u.attempt > c.analyzer_max_retries ->
                 analyze_with_semaphore_exit(c, i, "failed", NoPage, "ImageAnalysisError")
          [] out.kind = "llm_error" /\ u.attempt <= c.analyzer_max_retries ->
                 [c EXCEPT !.unit[i].attempt = @ + 1]
          [] OTHER ->
                 analyze_with_semaphore_exit(c, i, "failed", NoPage, "Exception")

\* one pass of analyze_slide_image's loop for unit i, given how its
\* analyze_image call ended: `attempt` is the loop variable, the number of
\* analyze_image calls the unit has made
analyze_slide_image_attempt(c, i, out) ==
    LET u == c.unit[i]
    IN  CASE out.kind = "answer" ->
                 analyze_with_semaphore_exit(c, i, "done",
                     parse_llm_response(c.images[i], out), "")
          [] out.kind = "llm_error" /\ u.attempt >= c.analyzer_max_retries ->
                 analyze_with_semaphore_exit(c, i, "failed", NoPage, "ImageAnalysisError")
          [] out.kind = "llm_error" /\ u.attempt < c.analyzer_max_retries ->
                 [c EXCEPT !.unit[i].attempt = @ + 1]
          [] OTHER ->
                 analyze_with_semaphore_exit(c, i, "failed", NoPage, "Exception")

UnitsIn(c, pcs) == {i \in DOMAIN c.unit : c.unit[i].pc \in pcs}

\* the units of c that hold a slot: between acquiring and releasing
Executing(c) == UnitsIn(c, {"running"})

\* (a variant that also counts a unit that raised as settled)
gather_done_tolerant(c) ==
    UnitsIn(c, {"done", "failed"}) = DOMAIN c.unit /\ c.state = "awaiting"

\* (a variant that lists the results in the order the units finished)
gather_results_as_completed(c) == [i \in DOMAIN c.unit |-> c.unit[c.finished[i]].result]

\* asyncio.gather(*units): the results of the units in the order they were
\* passed, once every unit has returned
gather_done(c) == UnitsIn(c, {"done"}) = DOMAIN c.unit /\ c.state = "awaiting"

gather_results(c) == [i \in DOMAIN c.unit |-> c.unit[i].result]

\* asyncio.gather without return_exceptions: the first unit to raise makes the
\* gather raise; the other units are left running
gather_failed(c) == UnitsIn(c, {"failed"}) # {} /\ c.state = "awaiting"

FirstFailed(c) ==
    LET f == SelectSeq(c.finished, LAMBDA i : c.unit[i].pc = "failed") IN f[1]

\* _analyze_images returns the gathered list ...
analyze_images_return(c) ==
    [c EXCEPT !.state = "returned", !.result = gather_results(c)]

\* ... or wraps whatever the gather raised in a WorkflowError
analyze_images_raise(c) ==
    [c EXCEPT !.state = "raised",
              !.error = <<"WorkflowError", "Failed to analyze images", c.unit[FirstFailed(c)].error>>]

(***************************************************************************)
(* Asset coordinator: ImageCoordinator                                     *)
(*                                                                         *)
(* A request is a dict with an "id" and, unless `raises`, all that its     *)
(* generation needs; `raises` stands for a request whose generation raises *)
(* when it is attempted (request["prompt"] missing, or the generation      *)
(* itself failing).  A dict is a function on the set of its keys.          *)
(***************************************************************************)
ImageIds == {"img1", "img2"}
Requests == [id : ImageIds, raises : BOOLEAN]

EmptyDict == <<>>
DictSet(d, k, v) == [x \in DOMAIN d \cup {k} |-> IF x = k THEN v ELSE d[x]]

\* Path(f"generated_{image_id}.png")
NoPath == <<>>
generated_path(id) == <<"generated_", id, ".png">>

\* (a variant whose cache keeps the latest image only)
generate_single_image_evicting(cache, request) ==
    IF request.id \in DOMAIN cache
    THEN [cache |-> cache, ok |-> TRUE, path |-> cache[request.id], generated |-> FALSE]
    ELSE IF request.raises
         THEN [cache |-> cache, ok |-> FALSE, path |-> NoPath, generated |-> FALSE]
         ELSE [cache |-> DictSet(EmptyDict, request.id, generated_path(request.id)),
               ok |-> TRUE, path |-> generated_path(request.id), generated |-> TRUE]

\* (a variant without the cache check)
generate_single_image_uncached(cache, request) ==
    IF request.raises
    THEN [cache |-> cache, ok |-> FALSE, path |-> NoPath, generated |-> FALSE]
    ELSE [cache |-> DictSet(cache, request.id, generated_path(request.id)),
          ok |-> TRUE, path |-> generated_path(request.id), generated |-> TRUE]

\* _generate_single_image on the cache: the cache after it, whether it
\* returned, the path it returned, and whether it performed a generation
generate_single_image(cache, request) ==
    IF request.id \in DOMAIN cache
    THEN [cache |-> cache, ok |-> TRUE, path |-> cache[request.id], generated |-> FALSE]
    ELSE IF request.raises
         THEN [cache |-> cache, ok |-> FALSE, path |-> NoPath, generated |-> FALSE]
         ELSE [cache |-> DictSet(cache, request.id, generated_path(request.id)),
               ok |-> TRUE, path |-> generated_path(request.id), generated |-> TRUE]

\* entering generate_images: an empty batch returns {} at once; otherwise the
\* semaphore and one _generate_with_semaphore per request go to asyncio.gather
generate_images_enter(requests, k) ==
    [requests |-> requests,
     max_concurrent |-> k,
     semaphore |-> k,
     unit |-> [i \in DOMAIN requests |-> [pc |-> "waiting", result |-> NoPath]],
     state |-> IF requests = <<>> THEN "returned" ELSE "awaiting",
     generated_images |-> EmptyDict,
     error |-> <<>>]

\* `async with semaphore` in _generate_with_semaphore
generate_with_semaphore_enter(g, i) ==
    [g EXCEPT !.semaphore = @ - 1, !.unit[i].pc = "running"]

\* _generate_single_image has returned or raised and the slot is given back
generate_with_semaphore_exit(g, i, r) ==
    [g EXCEPT !.semaphore = @ + 1,
              !.unit[i].pc = IF r.ok THEN "done" ELSE "failed",
              !.unit[i].result = r.path]

\* asyncio.gather(*tasks, return_exceptions=True) waits for every unit
gather_settled(g) == UnitsIn(g, {"done", "failed"}) = DOMAIN g.unit /\ g.state = "awaiting"

\* the aggregation loop: a later request of the same id overwrites an earlier
aggregate_results(g) ==
    LET ok == UnitsIn(g, {"done"})
        ids == {g.requests[i].id : i \in ok}
        last(id) == CHOOSE i \in ok : /\ g.requests[i].id = id
                                      /\ \A j \in ok : g.requests[j].id = id => j <= i
    IN  [id \in ids |-> g.unit[last(id)].result]

\* WorkflowError(f"All {len(errors)} image generation requests failed")
all_failed_error(n) == <<"WorkflowError", "All", n, "image generation requests failed">>

\* (a variant that raises on any failed request)
generate_images_finish_intolerant(g) ==
    LET errors == UnitsIn(g, {"failed"})
    IN  IF errors # {}
        THEN [g EXCEPT !.state = "raised", !.error = all_failed_error(Cardinality(errors))]
        ELSE [g EXCEPT !.state = "returned", !.generated_images = aggregate_results(g)]

\* the end of generate_images: raise when every request failed, else return
generate_images_finish(g) ==
    LET errors == UnitsIn(g, {"failed"})
    IN  IF errors # {} /\ Cardinality(errors) = Len(g.requests)
        THEN [g EXCEPT !.state = "raised", !.error = all_failed_error(Cardinality(errors))]
        ELSE [g EXCEPT !.state = "returned", !.generated_images = aggregate_results(g)]

NewCoord == [active |-> TRUE, cache |-> EmptyDict, gcalls |-> <<>>,
             generations |-> [id \in ImageIds |-> 0], cleared |-> FALSE]
IdleCoord == [NewCoord EXCEPT !.active = FALSE]

RequestLists(n) == UNION {[1 .. l -> Requests] : l \in 0 .. n}

\* unit i of call c runs _generate_single_image and leaves the semaphore
coordinator_unit(co, c, i) ==
    LET r == generate_single_image(co.cache, co.gcalls[c].requests[i])
        id == co.gcalls[c].requests[i].id
    IN  [co EXCEPT !.cache = r.cache,
                   !.generations[id] = IF r.generated THEN @ + 1 ELSE @,
                   !.gcalls[c] = generate_with_semaphore_exit(@, i, r)]

\* clear_cache
clear_cache(co) == [co EXCEPT !.cache = EmptyDict, !.cleared = TRUE]

(***************************************************************************)
(* Workflows: NewSlideWorkflow.execute (Create) and                        *)
(* ConversionWorkflow.execute (Convert)                                    *)
(***************************************************************************)
\* _run_step's defaults, and generate_images' default max_concurrent
DefaultRetryDelay == 1
DefaultMaxConcurrent == 3

CreateStages ==
    <<"parse_markdown", "generate_composition", "parse_composition",
      "generate_images", "generate_powerpoint">>
ConvertStages ==
    <<"load_images", "analyze_images", "process_images", "generate_powerpoint">>

Stages(w) == IF w.kind = "create" THEN CreateStages ELSE ConvertStages

\* (a variant that gives the render stage the budget of the other stages)
stage_budget_uniform(w, name) == w.max_retries

\* the max_retries each stage is run with: options' max_retries, but 1 for
\* the PowerPoint generation
stage_budget(w, name) == IF name = "generate_powerpoint" THEN 1 ELSE w.max_retries

\* the model's composition: whether CompositionParser accepts it, and the
\* generation requests _extract_image_requests finds in it
\* `pages` raw pages; the image elements that ask for generation, one per
\* request, are on the first page
Compositions ==
    {c \in [valid : BOOLEAN, pages : 0 .. MaxCompositionPages,
            requests : RequestLists(MaxCompositionImages)] :
        c.requests # <<>> => c.pages >= 1}
NoComposition == [valid |-> FALSE, pages |-> 0, requests |-> <<>>]

NoPages == <<>>

(***************************************************************************)
(* PageDefinition, ImageElement and TextElement objects.  Python passes    *)
(* them by reference: the heap maps a reference (an index) to the object's *)
(* fields, a page's `elements` is a list of references.                    *)
(***************************************************************************)
PageDefinitionFields ==
    {"page_number", "title", "elements", "layout", "notes", "background_color"}

\* the defaults of the fields of ElementDefinition / ImageElement (opacity in
\* percent) and the stand-ins for a Position and a Size
DefaultOpacity == 100
DefaultZIndex == 0
DefaultAltText == ""
FitModeContain == "contain"
SomePosition == [x |-> 100, y |-> 200]
SomeSize == [width |-> 800, height |-> 100]

\* PageDefinition(page_number=, title=, elements=, layout=, notes=,
\* background_color=); `image` is the input image the page was analysed from
PageDefinition(page_number, title, elements, layout, notes, background_color) ==
    [cls |-> "PageDefinition", page_number |-> page_number, image |-> 0,
     title |-> title, elements |-> elements, layout |-> layout, notes |-> notes,
     background_color |-> background_color]

\* ImageElement(position=, size=, source=, fit_mode=, z_index=): opacity and
\* alt_text take their defaults
ImageElement(position, size, source, fit_mode, z_index) ==
    [cls |-> "ImageElement", position |-> position, size |-> size,
     z_index |-> z_index, opacity |-> DefaultOpacity, source |-> source,
     fit_mode |-> fit_mode, alt_text |-> DefaultAltText]

\* FontConfig(): the defaults of its fields
DefaultFont ==
    [family |-> "Arial", size |-> 18, color |-> [hex_value |-> "#000000"],
     bold |-> FALSE, italic |-> FALSE, underline |-> FALSE]

\* Alignment
Alignments == {"left", "center", "right", "justify"}

\* TextElement(position=, size=, content=, z_index=): font and alignment take
\* their defaults
TextElement(position, size, content, z_index) ==
    [cls |-> "TextElement", position |-> position, size |-> size,
     z_index |-> z_index, opacity |-> DefaultOpacity, content |-> content,
     font |-> DefaultFont, alignment |-> "left"]

NewPage(n, image, elements) ==
    [PageDefinition(n, None, elements, None, None, None) EXCEPT !.image = image]
NewImageElement(source) ==
    ImageElement(SomePosition, SomeSize, source, FitModeContain, DefaultZIndex)

\* the references n new objects get
Alloc(heap, n) == [i \in 1 .. n |-> Len(heap) + i]

\* isinstance(element, ImageElement)
IsImage(heap, ref) == heap[ref].cls = "ImageElement"

\* the value a list of pages has: what == compares
PageValue(heap, ref) ==
    [heap[ref] EXCEPT !.elements = [e \in DOMAIN @ |-> heap[@[e]]]]
PagesValue(heap, pages) == [i \in DOMAIN pages |-> PageValue(heap, pages[i])]

\* the image elements of a list of pages
ElementsOf(heap, pages) ==
    UNION {{heap[pages[i]].elements[e] : e \in DOMAIN heap[pages[i]].elements} :
           i \in DOMAIN pages}

\* a str is the sequence of its pieces: "img10" is "img1" followed by "0"
Chars(s) == IF s = "img10" THEN <<"img1", "0">> ELSE <<s>>

\* `image_id in source`: image_id occurs somewhere inside source
Contains(source, image_id) ==
    \E k \in 0 .. Len(source) - Len(Chars(image_id)) :
        SubSeq(source, k + 1, k + Len(Chars(image_id))) = Chars(image_id)

\* the source composition data gives an element to be generated as `id`
placeholder(id) == <<"generated_">> \o Chars(id)

\* _parse_composition: CompositionParser.parse_pages numbers the pages by
\* position; a composition it rejects raises WorkflowValidationError
parse_composition(heap, composition) ==
    IF ~composition.valid
    THEN [heap |-> heap, pages |-> NoPages, out |-> Raised("WorkflowValidationError", "m1")]
    ELSE LET n == Len(composition.requests)
             elems == Alloc(heap, n)
             h1 == heap \o [e \in 1 .. n |-> NewImageElement(placeholder(composition.requests[e].id))]
             refs == Alloc(h1, composition.pages)
             h2 == h1 \o [i \in 1 .. composition.pages |->
                              NewPage(i, 0, IF i = 1 THEN elems ELSE <<>>)]
         IN  [heap |-> h2, pages |-> refs, out |-> Returned(refs)]

\* generated_images.items(): the (id, path) pairs of a dict in the order the
\* ids were first inserted, which is the order `ids` lists them in
RECURSIVE dict_items(_, _)
dict_items(d, ids) ==
    IF ids = <<>> THEN <<>>
    ELSE IF Head(ids) \in DOMAIN d
         THEN <<[image_id |-> Head(ids), generated_path |-> d[Head(ids)]]>>
                  \o dict_items(d, SelectSeq(Tail(ids), LAMBDA x : x # Head(ids)))
         ELSE dict_items(d, Tail(ids))

\* the items of generated_images whose id is found in an element's source;
\* the loop over the items stops at the first one
MatchingIds(source, generated_images) ==
    SelectSeq(generated_images, LAMBDA item : Contains(source, item.image_id))

\* the element the inner loop appends for `element`: an ImageElement whose
\* source holds an id is replaced by a new ImageElement built from its
\* position, size, fit_mode and z_index and the path of the first such id
updated_element(element, generated_images) ==
    ImageElement(element.position, element.size,
                 Head(MatchingIds(element.source, generated_images)).generated_path,
                 element.fit_mode, element.z_index)

\* the inner loop of _update_image_paths over one page's elements
RECURSIVE update_elements(_, _, _, _)
update_elements(heap, elements, generated_images, acc) ==
    IF elements = <<>>
    THEN [heap |-> heap, elements |-> acc]
    ELSE IF IsImage(heap, Head(elements))
              /\ MatchingIds(heap[Head(elements)].source, generated_images) # <<>>
         THEN update_elements(
                  Append(heap, updated_element(heap[Head(elements)], generated_images)),
                  Tail(elements), generated_images, Append(acc, Len(heap) + 1))
         ELSE update_elements(heap, Tail(elements), generated_images,
                              Append(acc, Head(elements)))

\* the outer loop: after a page's elements, the new PageDefinition is built
\* from page.page_number, page.title, page.background_color,
\* page.background_image and the new list (layout and notes take their
\* defaults); reading a field PageDefinition does not declare raises
\* AttributeError, and leaves the list built for that page behind
RECURSIVE update_pages(_, _, _, _)
update_pages(heap, pages, generated_images, acc) ==
    IF pages = <<>>
    THEN [heap |-> heap, ok |-> TRUE, pages |-> acc, error_type |-> "",
          updated_elements |-> <<>>]
    ELSE LET u == update_elements(heap, heap[Head(pages)].elements, generated_images, <<>>)
             page == heap[Head(pages)]
         IN  IF "background_image" \notin PageDefinitionFields
             THEN [heap |-> u.heap, ok |-> FALSE, pages |-> NoPages,
                   error_type |-> "AttributeError", updated_elements |-> u.elements]
             ELSE update_pages(
                      Append(u.heap,
                             [PageDefinition(page.page_number, page.title, u.elements,
                                             None, None, page.background_color)
                                 EXCEPT !.image = page.image]),
                      Tail(pages), generated_images, Append(acc, Len(u.heap) + 1))

\* (a variant that also assigns the path to the element it was given)
update_image_paths_in_place(heap, pages, generated_images) ==
    LET u == update_pages(heap, pages, generated_images, <<>>)
        hit(r) == /\ r \in ElementsOf(heap, pages)
                  /\ IsImage(heap, r)
                  /\ MatchingIds(heap[r].source, generated_images) # <<>>
    IN  [u EXCEPT !.heap =
            [r \in DOMAIN u.heap |->
                IF hit(r)
                THEN [heap[r] EXCEPT !.source =
                         Head(MatchingIds(heap[r].source, generated_images)).generated_path]
                ELSE u.heap[r]]]

\* _update_image_paths(pages, generated_images)
update_image_paths(heap, pages, generated_images) ==
    update_pages(heap, pages, generated_images, <<>>)

\* the PageDefinition objects analyze_slide_image built, as the gather lists
\* them: page i with elems[i] image elements, whose source is what the model
\* answered
RECURSIVE analyzed_pages(_, _, _, _)
analyzed_pages(heap, result, elems, acc) ==
    IF Len(acc) = Len(result)
    THEN [heap |-> heap, pages |-> acc]
    ELSE LET i == Len(acc) + 1
             h1 == heap \o [e \in 1 .. elems[i] |-> NewImageElement(<<"llm_source">>)]
         IN  analyzed_pages(
                 Append(h1, NewPage(result[i].page_number, result[i].image,
                                    Alloc(heap, elems[i]))),
                 result, elems, Append(acc, Len(h1) + 1))

\* the path _process_images saves the crop of element elem_idx of page
\* page_idx under
saved_path(page_idx, elem_idx) == <<"temp_dir/page", page_idx, "_elem", elem_idx, ".png">>

\* the inner loop of _process_images over the image elements of page
\* page_idx, from element elem_idx on: a crop or save that fails is logged
\* and skipped, one that succeeds assigns element.source; an error outside
\* the inner try (at element fail_at) ends the loop
RECURSIVE process_elements(_, _, _, _, _)
process_elements(heap, page_idx, elem_idx, crop_ok, fail_at) ==
    LET elements == heap[page_idx.ref].elements
    IN  IF elem_idx > Len(elements)
        THEN [heap |-> heap, ok |-> TRUE]
        ELSE IF elements[elem_idx] = fail_at
             THEN [heap |-> heap, ok |-> FALSE]
             ELSE process_elements(
                      IF crop_ok[elements[elem_idx]]
                      THEN [heap EXCEPT ![elements[elem_idx]].source =
                                            saved_path(page_idx.idx, elem_idx - 1)]
                      ELSE heap,
                      page_idx, elem_idx + 1, crop_ok, fail_at)

\* _process_images(images, pages, temp_dir): returns the list it was given
RECURSIVE process_pages(_, _, _, _, _)
process_pages(heap, pages, i, crop_ok, fail_at) ==
    IF i > Len(pages)
    THEN [heap |-> heap, ok |-> TRUE]
    ELSE LET p == process_elements(heap, [ref |-> pages[i], idx |-> i - 1], 1, crop_ok, fail_at)
         IN  IF p.ok THEN process_pages(p.heap, pages, i + 1, crop_ok, fail_at) ELSE p

process_images(heap, pages, crop_ok, fail_at) ==
    process_pages(heap, pages, 1, crop_ok, fail_at)

IdleWf ==
    [kind |-> "none", status |-> "pending", stage |-> 0,
     max_retries |-> 0, max_concurrent |-> 0, analyzer_max_retries |-> 0,
     generate_images |-> FALSE, history |-> <<>>,
     composition |-> NoComposition, images |-> 0,
     heap |-> <<>>, pages |-> NoPages,
     \* history: the list a stage produced and its value at that moment,
     \* whether the back-fill ran, the elements whose crop failed
     produced |-> [pages |-> NoPages, value |-> <<>>],
     backfill |-> "none", processed |-> FALSE, crop_failed |-> {},
     \* temp_dir on disk, and how its removal in the except clause went
     temp_dir |-> "absent", cleanup |-> "none",
     error |-> NoStepError, error_type |-> ""]

\* the stage that follows the current one: Create skips generate_images
\* unless options["generate_images"]
next_stage(w) ==
    IF w.kind = "create" /\ w.stage = 3 /\ ~w.generate_images THEN 5 ELSE w.stage + 1

start_stage(w, n) == run_step_enter(Stages(w)[n], stage_budget(w, Stages(w)[n]), DefaultRetryDelay)

\* (a variant whose cleanup failure replaces the error that is raised)
execute_raise_cleanup_error(w, r, rmtree_ok) ==
    IF w.kind = "convert" /\ w.temp_dir = "present" /\ ~rmtree_ok
    THEN [w EXCEPT !.status = "failed", !.error_type = "OSError"]
    ELSE [w EXCEPT !.status = "failed",
                   !.error = r.error,
                   !.error_type = "WorkflowStepError",
                   !.temp_dir = IF w.kind = "convert" /\ w.temp_dir = "present"
                                THEN "absent" ELSE @]

\* (a variant without the except clause: the error goes straight through)
execute_raise_no_cleanup(w, r, rmtree_ok) ==
    [w EXCEPT !.status = "failed",
              !.error = r.error,
              !.error_type = "WorkflowStepError"]

\* execute raising: Create lets the error through; Convert's except clause
\* first removes temp_dir (rmtree may itself fail, which is only logged)
execute_raise(w, r, rmtree_ok) ==
    [w EXCEPT !.status = "failed",
              !.error = r.error,
              !.error_type = "WorkflowStepError",
              !.temp_dir = IF w.kind = "convert" /\ w.temp_dir = "present" /\ rmtree_ok
                           THEN "absent" ELSE @,
              !.cleanup = IF w.kind = "convert" /\ w.temp_dir = "present"
                          THEN IF rmtree_ok THEN "removed" ELSE "failed"
                          ELSE @]

\* execute going on after a step returned: the next _run_step, or the
\* return of the output path
execute_advance(w, r) ==
    IF next_stage(w) > Len(Stages(w))
    THEN [wf |-> [w EXCEPT !.status = "completed"], run |-> r]
    ELSE [wf |-> [w EXCEPT !.stage = next_stage(w), !.history = Append(@, r)],
          run |-> start_stage(w, next_stage(w))]

\* Create after the generate_images step returned:
\* pages = self._update_image_paths(pages, generated_images), outside any
\* _run_step and any try; what it raises leaves execute as it is
execute_backfill(w, r) ==
    LET ids == [i \in DOMAIN w.composition.requests |-> w.composition.requests[i].id]
        b == update_image_paths(w.heap, w.pages, dict_items(r.result, ids))
    IN  IF b.ok
        THEN [w EXCEPT !.heap = b.heap, !.pages = b.pages, !.backfill = "returned"]
        ELSE [w EXCEPT !.heap = b.heap, !.backfill = "raised", !.status = "failed",
                       !.error_type = b.error_type]

\* (a variant that goes on to the next stage after a stage has raised)
execute_step_continue(w, r, rmtree_ok) ==
    CASE r.pc = "sleep" -> [wf |-> w, run |-> r]
      [] OTHER -> execute_advance(w, r)

\* execute after one _run_step attempt left the runner as r: go on waiting,
\* raise, or go on with the rest of execute
execute_step(w, r, rmtree_ok) ==
    CASE r.pc = "sleep" -> [wf |-> w, run |-> r]
      [] r.pc = "raised" -> [wf |-> execute_raise(w, r, rmtree_ok), run |-> r]
      [] r.pc = "returned" /\ r.step_name = "generate_images" ->
            IF execute_backfill(w, r).status = "failed"
            THEN [wf |-> execute_backfill(w, r), run |-> r]
            ELSE execute_advance(execute_backfill(w, r), r)
      [] OTHER -> execute_advance(w, r)

\* every _run_step call of the execution, the current one last
StageRuns == IF run.pc = "idle" THEN wf.history ELSE Append(wf.history, run)

\* asyncio runs one coroutine at a time: while execute is running, the units
\* of its fan-outs advance only when it is suspended, in the await of the
\* gather or in a retry wait
LoopFree ==
    entry \notin {"create", "convert"}
        \/ (wf.status = "running" /\ run.pc \in {"awaiting", "sleep"})

(***************************************************************************)
(* Entry point: a bare _run_step call on an arbitrary operation            *)
(***************************************************************************)
InitRunStep ==
    /\ entry = "run_step"
    /\ fn = IdleFn
    /\ tasks = NoTasks
    /\ \E name \in StepNames, m \in -1 .. MaxRetries, d \in RetryDelays :
           run = run_step_enter(name, m, d)
    /\ calls = <<>>
    /\ coord = IdleCoord
    /\ wf = IdleWf

StepInvoke ==
    /\ entry = "run_step"
    /\ run.pc = "call"
    /\ \E out \in Outcomes : run' = run_step_attempt(run, out)
    /\ UNCHANGED <<entry, fn, tasks, calls, coord, wf>>

StepSleep ==
    /\ run.pc = "sleep"
    /\ run' = run_step_sleep(run)
    /\ UNCHANGED <<entry, fn, tasks, calls, coord, wf>>

(***************************************************************************)
(* Entry point: a bare _analyze_images call                                *)
(***************************************************************************)
InitAnalyze ==
    /\ entry = "analyze_images"
    /\ fn = IdleFn
    /\ tasks = NoTasks
    /\ run = IdleRun
    /\ \E n \in 0 .. MaxUnits, k \in 0 .. MaxConcurrent, amax \in 1 .. MaxAnalyzerRetries :
           calls = <<analyze_images_enter(n, k, amax)>>
    /\ coord = IdleCoord
    /\ wf = IdleWf

\* a waiting unit of some call gets a slot
AnalyzeAcquire ==
    /\ LoopFree
    /\ \E a \in DOMAIN calls : \E i \in UnitsIn(calls[a], {"waiting"}) :
           /\ semaphore_free(calls[a])
           /\ calls' = [calls EXCEPT ![a] = analyze_with_semaphore_enter(calls[a], i)]
    /\ UNCHANGED <<entry, fn, tasks, run, coord, wf>>

\* a running unit's model call completes
AnalyzeLLMCall ==
    /\ LoopFree
    /\ \E a \in DOMAIN calls : \E i \in Executing(calls[a]) : \E out \in LLMOutcomes :
           /\ calls' = [calls EXCEPT ![a] = analyze_slide_image_attempt(calls[a], i, out)]
    /\ UNCHANGED <<entry, fn, tasks, run, coord, wf>>

AnalyzeReturn ==
    /\ entry = "analyze_images"
    /\ gather_done(calls[1])
    /\ calls' = [calls EXCEPT ![1] = analyze_images_return(calls[1])]
    /\ UNCHANGED <<entry, fn, tasks, run, coord, wf>>

AnalyzeRaise ==
    /\ entry = "analyze_images"
    /\ gather_failed(calls[1])
    /\ calls' = [calls EXCEPT ![1] = analyze_images_raise(calls[1])]
    /\ UNCHANGED <<entry, fn, tasks, run, coord, wf>>

(***************************************************************************)
(* Entry point: generate_images / clear_cache on one coordinator           *)
(***************************************************************************)
\* the batches of the generate_images calls made on the coordinator, all
\* with the same max_concurrent k; no more than `left` requests in all
Batches(n, left, k) ==
    LET RECURSIVE build(_, _)
        build(m, l) ==
            IF m = 0 THEN {<<>>}
            ELSE {<<>>} \cup
                 UNION {{<<generate_images_enter(requests, k)>> \o rest :
                            rest \in build(m - 1, l - Len(requests))} :
                        requests \in RequestLists(l) \ {<<>>}}
    IN  build(n, left)

InitCoordinator ==
    /\ entry = "generate_images"
    /\ fn = IdleFn
    /\ tasks = NoTasks
    /\ run = IdleRun
    /\ calls = <<>>
    /\ \E k \in 0 .. MaxConcurrent : \E batches \in Batches(MaxGenCalls, MaxRequests, k) :
           coord = [NewCoord EXCEPT !.gcalls = batches]
    /\ wf = IdleWf

CoordAcquire ==
    /\ coord.active
    /\ LoopFree
    /\ \E c \in DOMAIN coord.gcalls : \E i \in UnitsIn(coord.gcalls[c], {"waiting"}) :
           /\ semaphore_free(coord.gcalls[c])
           /\ coord' = [coord EXCEPT !.gcalls[c] = generate_with_semaphore_enter(@, i)]
    /\ UNCHANGED <<entry, fn, tasks, run, calls, wf>>

CoordUnit ==
    /\ coord.active
    /\ LoopFree
    /\ \E c \in DOMAIN coord.gcalls : \E i \in Executing(coord.gcalls[c]) :
           coord' = coordinator_unit(coord, c, i)
    /\ UNCHANGED <<entry, fn, tasks, run, calls, wf>>

CoordFinish ==
    /\ entry = "generate_images"
    /\ \E c \in DOMAIN coord.gcalls :
           /\ gather_settled(coord.gcalls[c])
           /\ coord' = [coord EXCEPT !.gcalls[c] = generate_images_finish(@)]
    /\ UNCHANGED <<entry, fn, tasks, run, calls, wf>>

CoordClearCache ==
    /\ entry = "generate_images"
    /\ coord.cache # EmptyDict
    /\ coord' = clear_cache(coord)
    /\ UNCHANGED <<entry, fn, tasks, run, calls, wf>>

(***************************************************************************)
(* Entry point: NewSlideWorkflow.execute                                   *)
(***************************************************************************)
InitCreate ==
    /\ entry = "create"
    /\ fn = IdleFn
    /\ tasks = NoTasks
    /\ run = IdleRun
    /\ calls = <<>>
    /\ coord = NewCoord
    /\ \E m \in 1 .. MaxWorkflowRetries, gen \in BOOLEAN :
           wf = [IdleWf EXCEPT !.kind = "create", !.max_retries = m, !.generate_images = gen]

InitConvert ==
    /\ entry = "convert"
    /\ fn = IdleFn
    /\ tasks = NoTasks
    /\ run = IdleRun
    /\ calls = <<>>
    /\ coord = IdleCoord
    /\ \E m \in 1 .. MaxWorkflowRetries, k \in 1 .. MaxConcurrent,
          amax \in 1 .. MaxAnalyzerRetries :
           wf = [IdleWf EXCEPT !.kind = "convert", !.max_retries = m,
                               !.max_concurrent = k, !.analyzer_max_retries = amax]

\* what the checks at the head of execute raise: TypeError for input_data,
\* _validate_input's errors, ValueError from _validate_output_path
ValidationErrors(kind) ==
    IF kind = "convert"
    THEN {"TypeError", "WorkflowValidationError", "FileNotFoundError", "ValueError"}
    ELSE {"TypeError", "WorkflowValidationError", "ValueError"}

\* the head of execute: the validation, then Convert's temp_dir.mkdir, which
\* may raise as well, then the first _run_step
ExecuteStart ==
    /\ wf.kind \in {"create", "convert"}
    /\ wf.status = "pending"
    /\ \/ /\ \E e \in ValidationErrors(wf.kind) :
                 wf' = [wf EXCEPT !.status = "failed", !.error_type = e]
          /\ run' = run
       \/ /\ wf.kind = "convert"
          /\ wf' = [wf EXCEPT !.status = "failed", !.error_type = "OSError"]
          /\ run' = run
       \/ /\ wf' = [wf EXCEPT !.status = "running", !.stage = 1,
                              !.temp_dir = IF wf.kind = "convert" THEN "present" ELSE @]
          /\ run' = start_stage(wf, 1)
    /\ UNCHANGED <<entry, fn, tasks, calls, coord>>

AtStage(kind, name) ==
    /\ wf.kind = kind
    /\ wf.status = "running"
    /\ run.step_name = name

\* one attempt of the current stage ended as `out`, having left the
\* execution's data as w
StageAttempt(w, out) ==
    \E rmtree_ok \in BOOLEAN :
        LET e == execute_step(w, run_step_attempt(run, out), rmtree_ok)
        IN  wf' = e.wf /\ run' = e.run

CreateParseMarkdown ==
    /\ AtStage("create", "parse_markdown")
    /\ run.pc = "call"
    /\ \E out \in {Returned("parsed_data"), Raised("OSError", "m1")} : StageAttempt(wf, out)
    /\ UNCHANGED <<entry, fn, tasks, calls, coord>>

CreateGenerateComposition ==
    /\ AtStage("create", "generate_composition")
    /\ run.pc = "call"
    /\ \/ \E c \in Compositions :
              StageAttempt([wf EXCEPT !.composition = c], Returned(c))
       \/ StageAttempt(wf, Raised("LLMError", "m1"))
    /\ UNCHANGED <<entry, fn, tasks, calls, coord>>

CreateParseComposition ==
    /\ AtStage("create", "parse_composition")
    /\ run.pc = "call"
    /\ LET p == parse_composition(wf.heap, wf.composition)
       IN  StageAttempt([wf EXCEPT !.heap = p.heap, !.pages = p.pages,
                                   !.produced = [pages |-> p.pages,
                                                 value |-> PagesValue(p.heap, p.pages)]],
                        p.out)
    /\ UNCHANGED <<entry, fn, tasks, calls, coord>>

\* _generate_images: nothing to generate returns {} at once; otherwise
\* image_coordinator.generate_images(image_requests) is awaited
CreateGenerateImages ==
    /\ AtStage("create", "generate_images")
    /\ run.pc = "call"
    /\ IF wf.composition.requests = <<>>
       THEN /\ StageAttempt(wf, Returned(EmptyDict))
            /\ coord' = coord
       ELSE /\ coord' = [coord EXCEPT !.gcalls = Append(@,
                             generate_images_enter(wf.composition.requests, DefaultMaxConcurrent))]
            /\ run' = run_step_await(run)
            /\ wf' = wf
    /\ UNCHANGED <<entry, fn, tasks, calls>>

\* generate_images ends; on success execute back-fills the paths
CreateImagesGenerated ==
    /\ AtStage("create", "generate_images")
    /\ run.pc = "awaiting"
    /\ gather_settled(coord.gcalls[Len(coord.gcalls)])
    /\ LET g == generate_images_finish(coord.gcalls[Len(coord.gcalls)])
       IN  /\ coord' = [coord EXCEPT !.gcalls[Len(coord.gcalls)] = g]
           /\ IF g.state = "returned"
              THEN StageAttempt(wf, Returned(g.generated_images))
              ELSE StageAttempt(wf, Raised("WorkflowError", "m1"))
    /\ UNCHANGED <<entry, fn, tasks, calls>>

\* PowerPointGenerator.generate is called once per invocation
CreateGeneratePowerpoint ==
    /\ AtStage("create", "generate_powerpoint")
    /\ run.pc = "call"
    /\ \E out \in {Returned("result_path"), Raised("PowerPointError", "m1")} :
           StageAttempt(wf, out)
    /\ UNCHANGED <<entry, fn, tasks, calls, coord>>

(***************************************************************************)
(* Entry point: ConversionWorkflow.execute                                 *)
(***************************************************************************)
ConvertLoadImages ==
    /\ AtStage("convert", "load_images")
    /\ run.pc = "call"
    /\ \/ \E n \in 1 .. MaxPages :
              /\ n * wf.max_retries <= MaxAnalyses
              /\ StageAttempt([wf EXCEPT !.images = n], Returned(n))
       \/ StageAttempt(wf, Raised("WorkflowError", "m1"))
    /\ UNCHANGED <<entry, fn, tasks, calls, coord>>

ConvertAnalyzeImages ==
    /\ AtStage("convert", "analyze_images")
    /\ run.pc = "call"
    /\ calls' = Append(calls,
           analyze_images_enter(wf.images, wf.max_concurrent, wf.analyzer_max_retries))
    /\ run' = run_step_await(run)
    /\ UNCHANGED <<entry, fn, tasks, coord, wf>>

\* the document converted here has one picture, on its first page
DocumentElements(n) == [i \in 1 .. n |-> IF i = 1 THEN 1 ELSE 0]

ConvertImagesAnalyzed ==
    /\ AtStage("convert", "analyze_images")
    /\ run.pc = "awaiting"
    /\ gather_done(calls[Len(calls)])
    /\ LET c == analyze_images_return(calls[Len(calls)])
       IN  /\ calls' = [calls EXCEPT ![Len(calls)] = c]
           /\ LET a == analyzed_pages(wf.heap, c.result, DocumentElements(Len(c.result)), <<>>)
                  IN  StageAttempt([wf EXCEPT !.heap = a.heap, !.pages = a.pages,
                                              !.produced = [pages |-> a.pages,
                                                            value |-> PagesValue(a.heap, a.pages)]],
                                   Returned(a.pages))
    /\ UNCHANGED <<entry, fn, tasks, coord>>

ConvertAnalysisFailed ==
    /\ AtStage("convert", "analyze_images")
    /\ run.pc = "awaiting"
    /\ gather_failed(calls[Len(calls)])
    /\ LET c == analyze_images_raise(calls[Len(calls)])
       IN  /\ calls' = [calls EXCEPT ![Len(calls)] = c]
           /\ StageAttempt(wf, Raised("WorkflowError", "m1"))
    /\ UNCHANGED <<entry, fn, tasks, coord>>

\* _process_images returns the page list it was given; a failure to crop or
\* save one element is only logged, any other error is raised as WorkflowError
ConvertProcessImages ==
    /\ AtStage("convert", "process_images")
    /\ run.pc = "call"
    /\ \E crop_ok \in [ElementsOf(wf.heap, wf.pages) -> BOOLEAN],
          fail_at \in ElementsOf(wf.heap, wf.pages) \cup {0} :
           LET p == process_images(wf.heap, wf.pages, crop_ok, fail_at)
               failed == {e \in DOMAIN crop_ok : ~crop_ok[e]}
           IN  /\ fail_at # 0 => crop_ok[fail_at]
               /\ IF p.ok
                  THEN StageAttempt([wf EXCEPT !.heap = p.heap, !.processed = TRUE,
                                               !.crop_failed = failed],
                                    Returned(wf.pages))
                  ELSE StageAttempt([wf EXCEPT !.heap = p.heap],
                                    Raised("WorkflowError", "m1"))
    /\ UNCHANGED <<entry, fn, tasks, calls, coord>>

\* powerpoint_generator.generate is called once per invocation
ConvertGeneratePowerpoint ==
    /\ AtStage("convert", "generate_powerpoint")
    /\ run.pc = "call"
    /\ \E out \in {Returned("result_path"), Raised("WorkflowError", "m1")} :
           StageAttempt(wf, out)
    /\ UNCHANGED <<entry, fn, tasks, calls, coord>>

(***************************************************************************)
(* Entry point: one _update_image_paths call on given pages                *)
(***************************************************************************)
MaxBackfillPages == 1
MaxPageElements == 2

\* the ids of the generated images, and the dicts generate_images may have
\* returned for them: any of the ids, inserted in any order
BackfillIds == {"img1", "img10"}
GeneratedImages ==
    {items \in UNION {[1 .. l -> [image_id : BackfillIds, generated_path : {NoPath}]] :
                          l \in 0 .. Cardinality(BackfillIds)} :
        \A i, j \in DOMAIN items : i # j => items[i].image_id # items[j].image_id}
WithPaths(items) ==
    [i \in DOMAIN items |-> [items[i] EXCEPT !.generated_path = generated_path(items[i].image_id)]]

\* the elements a parsed page may hold: a text, and images that wait for a
\* generated image or name a file, with the default or with their own
\* opacity and alt_text
ElementInputs ==
    {TextElement(SomePosition, SomeSize, "text", 1)}
        \cup {[ImageElement(SomePosition, SomeSize, source, "cover", 2)
                   EXCEPT !.opacity = look.opacity, !.alt_text = look.alt_text] :
                 source \in {placeholder("img10"), <<"photo.png">>},
                 look \in {[opacity |-> DefaultOpacity, alt_text |-> DefaultAltText],
                           [opacity |-> 50, alt_text |-> "logo"]}}
PageInputs ==
    [elements : UNION {[1 .. l -> ElementInputs] : l \in 0 .. MaxPageElements},
     extras : {[layout |-> None, notes |-> None],
               [layout |-> "title_slide", notes |-> "speaker notes"]}]

\* the objects of the given pages on the heap, page i after its elements
RECURSIVE input_pages(_, _, _)
input_pages(heap, inputs, acc) ==
    IF Len(acc) = Len(inputs)
    THEN [heap |-> heap, pages |-> acc]
    ELSE LET in == inputs[Len(acc) + 1]
         IN  input_pages(
                 Append(heap \o in.elements,
                        PageDefinition(Len(acc) + 1, "Title", Alloc(heap, Len(in.elements)),
                                       in.extras.layout, in.extras.notes, "#FFFFFF")),
                 inputs, Append(acc, Len(heap) + Len(in.elements) + 1))

InitBackfill ==
    /\ entry = "update_image_paths"
    /\ run = IdleRun
    /\ calls = <<>>
    /\ coord = IdleCoord
    /\ wf = IdleWf
    /\ tasks = NoTasks
    /\ \E n \in 0 .. MaxBackfillPages : \E inputs \in [1 .. n -> PageInputs] :
       \E items \in GeneratedImages :
           LET in == input_pages(<<>>, inputs, <<>>)
           IN  fn = [name |-> "update_image_paths", pc |-> "call",
                     heap |-> in.heap, pages |-> in.pages,
                     generated_images |-> WithPaths(items),
                     given |-> in.heap,
                     result |-> NoPages, updated_elements |-> <<>>, error_type |-> ""]

\* the call runs to its end
UpdateImagePaths ==
    /\ entry = "update_image_paths"
    /\ fn.pc = "call"
    /\ LET b == update_image_paths(fn.heap, fn.pages, fn.generated_images)
       IN  fn' = [fn EXCEPT !.pc = IF b.ok THEN "returned" ELSE "raised",
                            !.heap = b.heap,
                            !.result = b.pages,
                            !.updated_elements = b.updated_elements,
                            !.error_type = b.error_type]
    /\ UNCHANGED <<entry, run, calls, coord, wf, tasks>>

(***************************************************************************)
(* Composition Validator: CompositionParser.parse_slide_config and         *)
(* parse_pages on the model's raw composition.  A raw dict is a function   *)
(* on the set of its keys; parsed pages and elements are given as values.  *)
(***************************************************************************)
MaxRawPages == 2
MaxRawElements == 3

\* CompositionParser.__init__: the attributes of a new parser
NewParser == [logger |-> "structlog"]

SlideSizes == {"16:9", "4:3", "A4", "letter", "custom"}
\* Size: width and height are Field(..., gt=0); Position declares no constraint
SizeValid(size) == size.width > 0 /\ size.height > 0

Get(data, key, default) == IF key \in DOMAIN data THEN data[key] ELSE default
Without(data, key) == [k \in DOMAIN data \ {key} |-> data[k]]

\* _normalize_slide_config and SlideConfig(**normalized)
parse_slide_config(config_data) ==
    LET normalized == [size |-> Get(config_data, "size", "16:9"),
                       theme |-> Get(config_data, "theme", "default")]
    IN  IF normalized.size \in SlideSizes
        THEN [ok |-> TRUE, slide_config |-> normalized, error_type |-> ""]
        ELSE [ok |-> FALSE, slide_config |-> None,
              error_type |-> "WorkflowValidationError"]

\* what parsing one element gives: an element, None for an element that is
\* skipped, or the exception raised
Parsed(element) == [ok |-> TRUE, skipped |-> FALSE, element |-> element, error_type |-> ""]
Skipped == [ok |-> TRUE, skipped |-> TRUE, element |-> None, error_type |-> ""]
Failed(error_type) == [ok |-> FALSE, skipped |-> FALSE, element |-> None, error_type |-> error_type]

\* a JSON string and a JSON object holding a colour, as raw values
JsonString(value) == [json |-> "string", value |-> value]
JsonColor(hex_value) == [json |-> "object", hex_value |-> hex_value]

HexColors == {"#000000", "#112233"}
MaxFontSize == 200

\* FontConfig(family=, size=, color=, bold=, italic=, underline=): size is
\* gt=0, le=200; color is a Color field, which validates from a Color or a
\* dict with a hex_value, not from a str
FontConfig(family, size, color, bold, italic, underline) ==
    IF /\ size > 0 /\ size <= MaxFontSize
       /\ color.json = "object"
       /\ color.hex_value \in HexColors
    THEN [ok |-> TRUE,
          font |-> [family |-> family, size |-> size,
                    color |-> [hex_value |-> color.hex_value],
                    bold |-> bold, italic |-> italic, underline |-> underline]]
    ELSE [ok |-> FALSE, font |-> None]

\* Alignment(alignment_str), except ValueError: Alignment.LEFT
parse_alignment(alignment_str) ==
    IF alignment_str \in Alignments THEN alignment_str ELSE "left"

\* _parse_text_element: data["position"], data["size"], data["content"] are
\* subscripted (KeyError when absent), Position / Size / FontConfig /
\* TextElement validate (pydantic ValidationError), in the order of the code
parse_text_element(data) ==
    LET font_config(font_data) ==
            FontConfig(Get(font_data, "family", "Arial"),
                       Get(font_data, "size", 18),
                       Get(font_data, "color", JsonString("#000000")),
                       Get(font_data, "bold", FALSE),
                       Get(font_data, "italic", FALSE),
                       Get(font_data, "underline", FALSE))
        text_element(font, alignment) ==
            IF "position" \notin DOMAIN data THEN Failed("KeyError")
            ELSE IF "size" \notin DOMAIN data THEN Failed("KeyError")
            ELSE IF ~SizeValid(data.size) THEN Failed("ValidationError")
            ELSE IF ~font.ok THEN Failed("ValidationError")
            ELSE IF "content" \notin DOMAIN data THEN Failed("KeyError")
            ELSE Parsed([TextElement(data.position, data.size, data.content,
                                     Get(data, "z_index", DefaultZIndex))
                            EXCEPT !.font = font.font, !.alignment = alignment])
    IN  text_element(font_config(Get(data, "font", EmptyDict)),
                     parse_alignment(Get(data, "alignment", "left")))

\* _parse_image_element, likewise with data["source"]
parse_image_element(data) ==
    IF "position" \notin DOMAIN data THEN Failed("KeyError")
    ELSE IF "size" \notin DOMAIN data THEN Failed("KeyError")
    ELSE IF ~SizeValid(data.size) THEN Failed("ValidationError")
    ELSE IF "source" \notin DOMAIN data THEN Failed("KeyError")
    ELSE Parsed(ImageElement(data.position, data.size, data.source,
                             Get(data, "fit_mode", FitModeContain),
                             Get(data, "z_index", DefaultZIndex)))

\* _parse_element: by data.get("type"); any other type is logged and None
parse_element(data) ==
    CASE Get(data, "type", None) = "text" -> parse_text_element(data)
      [] Get(data, "type", None) = "image" -> parse_image_element(data)
      [] OTHER -> Skipped

\* the loop of _normalize_page over data.get("elements", [])
RECURSIVE parse_elements(_, _)
parse_elements(elements, acc) ==
    IF elements = <<>>
    THEN [ok |-> TRUE, elements |-> acc, error_type |-> ""]
    ELSE LET append(e) ==
                 IF ~e.ok THEN [ok |-> FALSE, elements |-> <<>>, error_type |-> e.error_type]
                 ELSE parse_elements(Tail(elements),
                                     IF e.skipped THEN acc ELSE Append(acc, e.element))
         IN  append(parse_element(Head(elements)))

\* (a variant that takes the page number the raw page states, if any)
normalize_page_raw_number(data, page_number) ==
    LET normalized(e) ==
            [ok |-> e.ok, error_type |-> e.error_type,
             normalized |-> [page_number |-> Get(data, "page_number", page_number),
                             title |-> Get(data, "title", ""),
                             elements |-> e.elements]]
    IN  normalized(parse_elements(Get(data, "elements", <<>>), <<>>))

\* _normalize_page(data, page_number); PageDefinition(**normalized) ignores
\* the background_image key
normalize_page(data, page_number) ==
    LET normalized(e) ==
            [ok |-> e.ok, error_type |-> e.error_type,
             normalized |-> [page_number |-> page_number,
                             title |-> Get(data, "title", ""),
                             elements |-> e.elements]]
    IN  normalized(parse_elements(Get(data, "elements", <<>>), <<>>))

\* the loop of parse_pages from raw page i + 1 on, `pages` being the local
\* list: a ValidationError is re-raised as WorkflowValidationError naming the
\* page, anything else is not caught
RECURSIVE parse_pages_loop(_, _)
parse_pages_loop(pages_data, pages) ==
    IF Len(pages) = Len(pages_data)
    THEN [ok |-> TRUE, pages |-> pages, error_type |-> "", page |-> 0]
    ELSE LET i == Len(pages)
             append(n) ==
                 IF n.ok
                 THEN parse_pages_loop(pages_data, Append(pages, n.normalized))
                 ELSE [ok |-> FALSE, pages |-> None,
                       error_type |-> IF n.error_type = "ValidationError"
                                      THEN "WorkflowValidationError" ELSE n.error_type,
                       page |-> IF n.error_type = "ValidationError" THEN i + 1 ELSE 0]
         IN  append(normalize_page(pages_data[i + 1], i + 1))

\* (a variant that keeps the list of pages on the parser instead of in a local)
parse_pages_on_self(parser, pages_data) ==
    LET kept == Get(parser, "pages", <<>>)
        extend(r) ==
            IF r.ok
            THEN [parser |-> [k \in DOMAIN parser \cup {"pages"} |->
                                 IF k = "pages" THEN kept \o r.pages ELSE parser[k]],
                  out |-> [r EXCEPT !.pages = kept \o r.pages]]
            ELSE [parser |-> parser, out |-> r]
    IN  extend(parse_pages_loop(pages_data, <<>>))

\* parse_pages(pages_data) on a parser: the parser after the call and what
\* the call returned or raised
parse_pages(parser, pages_data) ==
    [parser |-> parser, out |-> parse_pages_loop(pages_data, <<>>)]

\* _parse_composition: parse_slide_config, then parse_pages
parse(parser, composition) ==
    LET composed(c, p) ==
            IF ~c.ok
            THEN [parser |-> parser,
                  out |-> [ok |-> FALSE, slide_config |-> None, pages |-> None,
                           error_type |-> c.error_type, page |-> 0]]
            ELSE [parser |-> p.parser,
                  out |-> [ok |-> p.out.ok,
                           slide_config |-> IF p.out.ok THEN c.slide_config ELSE None,
                           pages |-> p.out.pages, error_type |-> p.out.error_type,
                           page |-> p.out.page]]
    IN  composed(parse_slide_config(composition.slide_config),
                 parse_pages(parser, composition.pages))

\* raw elements: a text with the required fields only, a text that gives its
\* colour as an object, an image, an element of an unknown type, a text
\* without its content, an image without its source
RawText == [type |-> "text", position |-> SomePosition, size |-> SomeSize, content |-> "text"]
RawColoredText ==
    [type |-> "text", position |-> SomePosition, size |-> SomeSize, content |-> "text",
     font |-> [color |-> JsonColor("#112233")]]
RawImage == [type |-> "image", position |-> SomePosition, size |-> SomeSize, source |-> <<"photo.png">>]
RawElements ==
    {RawText,
     RawColoredText,
     RawImage,
     [type |-> "video", position |-> SomePosition, size |-> SomeSize, source |-> <<"video.mp4">>],
     Without(RawColoredText, "content"),
     Without(RawImage, "source")}

\* a raw page with the given elements: with a title, or with no title but a
\* page number of its own
RawPage(variant, elements) ==
    IF variant = "titled" THEN [title |-> "Title", elements |-> elements]
    ELSE [page_number |-> 7, elements |-> elements]

RECURSIVE Sum(_, _)
Sum(lens, n) == IF n = 0 THEN 0 ELSE lens[n] + Sum(lens, n - 1)

\* the raw page list with lens[i] elements on page i, taken in order from
\* `elements`
RawPageList(variants, lens, elements) ==
    [i \in DOMAIN lens |->
        RawPage(variants[i],
                SubSeq(elements, Sum(lens, i - 1) + 1, Sum(lens, i)))]

RawConfigs == {EmptyDict, [size |-> "4:3"], [size |-> "2:1"]}

InitParser ==
    /\ entry = "parse"
    /\ run = IdleRun
    /\ calls = <<>>
    /\ coord = IdleCoord
    /\ wf = IdleWf
    /\ tasks = NoTasks
    /\ \E config \in RawConfigs : \E n \in 0 .. MaxRawPages :
         \E variants \in [1 .. n -> {"titled", "numbered"}] :
           \E lens \in [1 .. n -> 0 .. MaxRawElements] :
             /\ Sum(lens, n) <= MaxRawElements
             /\ \E elements \in [1 .. Sum(lens, n) -> RawElements] :
                  fn = [name |-> "parse", pc |-> "call",
                        composition |-> [slide_config |-> config,
                                         pages |-> RawPageList(variants, lens, elements)],
                        parser |-> NewParser,
                        results |-> <<>>]

\* one page with one element whose position and size are drawn from a grid
MaxCoordinate == 1
Coordinates == -1 .. MaxCoordinate

InitGeometry ==
    /\ entry = "parse"
    /\ run = IdleRun
    /\ calls = <<>>
    /\ coord = IdleCoord
    /\ wf = IdleWf
    /\ tasks = NoTasks
    /\ \E x, y, width, height \in Coordinates : \E data \in {RawColoredText, RawImage} :
           fn = [name |-> "parse", pc |-> "call",
                 composition |->
                     [slide_config |-> EmptyDict,
                      pages |-> <<RawPage("titled",
                                  <<[data EXCEPT !.position = [x |-> x, y |-> y],
                                                 !.size = [width |-> width, height |-> height]]>>)>>],
                 parser |-> NewParser,
                 results |-> <<>>]

\* one page with one text element whose optional fields are drawn
RawFonts ==
    {[color |-> JsonColor("#112233")],
     [color |-> JsonString("#112233")],
     [color |-> JsonColor("#112233"), size |-> 24, bold |-> TRUE]}
AlignmentStrings ==
    {"left", "center", "CENTER", "Center", "right", "RIGHT", "justify", "middle"}

InitText ==
    /\ entry = "parse"
    /\ run = IdleRun
    /\ calls = <<>>
    /\ coord = IdleCoord
    /\ wf = IdleWf
    /\ tasks = NoTasks
    /\ \E config \in RawConfigs : \E font \in RawFonts : \E alignment \in AlignmentStrings :
         \E absent \in SUBSET {"font", "alignment", "z_index"} :
           LET full == [type |-> "text", position |-> SomePosition, size |-> SomeSize,
                        content |-> "text", font |-> font, alignment |-> alignment,
                        z_index |-> 2]
           IN  fn = [name |-> "parse", pc |-> "call",
                     composition |->
                         [slide_config |-> config,
                          pages |-> <<RawPage("titled",
                                      <<[k \in DOMAIN full \ absent |-> full[k]]>>)>>],
                     parser |-> NewParser,
                     results |-> <<>>]

\* parser.parse_slide_config(...), parser.parse_pages(...): the first parse
Parse ==
    /\ entry = "parse"
    /\ fn.pc = "call"
    /\ LET r == parse(fn.parser, fn.composition)
       IN  fn' = [fn EXCEPT !.pc = "parsed", !.parser = r.parser,
                            !.results = Append(@, [validator |-> "same", out |-> r.out])]
    /\ UNCHANGED <<entry, run, calls, coord, wf, tasks>>

\* the composition is parsed again on the parser that parsed it before
ParseAgain ==
    /\ entry = "parse"
    /\ fn.pc = "parsed"
    /\ LET r == parse(fn.parser, fn.composition)
       IN  fn' = [fn EXCEPT !.pc = "reparsed", !.parser = r.parser,
                            !.results = Append(@, [validator |-> "same", out |-> r.out])]
    /\ UNCHANGED <<entry, run, calls, coord, wf, tasks>>

\* the composition is parsed again, on a new CompositionParser
ParseOnNewParser ==
    /\ entry = "parse"
    /\ fn.pc = "parsed"
    /\ LET r == parse(NewParser, fn.composition)
       IN  fn' = [fn EXCEPT !.pc = "reparsed", !.parser = r.parser,
                            !.results = Append(@, [validator |-> "new", out |-> r.out])]
    /\ UNCHANGED <<entry, run, calls, coord, wf, tasks>>

(***************************************************************************)
(* Renderer: SlideBuilder.build_slide on one page object.  fn.page is the  *)
(* PageDefinition the caller holds, fn.slide the shapes placed on the      *)
(* slides so far, in the order they were placed.                           *)
(***************************************************************************)
MaxSlideElements == 3
MaxBuilds == 2

ZIndexes == {0, 1, 2}

\* element_type: the Literal of the element's class
element_type(element) == IF element.cls = "TextElement" THEN "text" ELSE "image"

\* list.sort(key=lambda e: e.z_index) step: e goes behind every element
\* whose key is not greater (the sort is stable)
RECURSIVE insert_by_z_index(_, _)
insert_by_z_index(sorted, e) ==
    IF sorted = <<>> THEN <<e>>
    ELSE IF sorted[Len(sorted)].z_index <= e.z_index THEN Append(sorted, e)
    ELSE Append(insert_by_z_index(SubSeq(sorted, 1, Len(sorted) - 1), e),
                sorted[Len(sorted)])

RECURSIVE sorted_by_z_index(_, _)
sorted_by_z_index(elements, acc) ==
    IF elements = <<>> THEN acc
    ELSE sorted_by_z_index(Tail(elements), insert_by_z_index(acc, Head(elements)))

\* PageDefinition.sort_elements_by_z_index: self.elements.sort(...) sorts the
\* list the page holds
sort_elements_by_z_index(page) ==
    [page EXCEPT !.elements = sorted_by_z_index(@, <<>>)]

\* text_renderer.render / image_renderer.render: one shape on the slide
render(element) ==
    [shape |-> element_type(element), z_index |-> element.z_index,
     of |-> IF element.cls = "TextElement" THEN element.content ELSE element.source]

\* SlideBuilder.build_slide(page_def): the page after the call and the
\* shapes placed, in order
build_slide(page_def) ==
    LET page == sort_elements_by_z_index(page_def)
    IN  [page |-> page,
         shapes |-> [e \in DOMAIN page.elements |-> render(page.elements[e])]]

\* the i-th element of a page under construction
SlideElement(i, kind, z_index) ==
    IF kind = "text"
    THEN TextElement(SomePosition, SomeSize, <<"text", ToString(i)>>, z_index)
    ELSE ImageElement(SomePosition, SomeSize, <<"image", ToString(i)>>, FitModeContain, z_index)

SlidePages ==
    UNION {{PageDefinition(1, "Title",
                           [i \in 1 .. l |-> SlideElement(i, kinds[i], zs[i])],
                           None, None, None) :
               kinds \in [1 .. l -> {"text", "image"}], zs \in [1 .. l -> ZIndexes]} :
           l \in 0 .. MaxSlideElements}

InitRender ==
    /\ entry = "build_slide"
    /\ run = IdleRun
    /\ calls = <<>>
    /\ coord = IdleCoord
    /\ wf = IdleWf
    /\ tasks = NoTasks
    /\ \E page \in SlidePages :
           fn = [name |-> "build_slide", pc |-> "call", page |-> page, given |-> page,
                 slide |-> <<>>, builds |-> 0]

\* builder.build_slide(page) on the page the caller holds
BuildSlide ==
    /\ entry = "build_slide"
    /\ fn.builds < MaxBuilds
    /\ LET b == build_slide(fn.page)
       IN  fn' = [fn EXCEPT !.page = b.page, !.slide = b.shapes,
                            !.builds = @ + 1, !.pc = "done"]
    /\ UNCHANGED <<entry, run, calls, coord, wf, tasks>>

(***************************************************************************)
(* Coordinate normalisation: ImageAnalyzer._normalize_position and         *)
(* _normalize_size.  Sizes are pairs <<width, height>>.  The scale is a    *)
(* float in the code; for the values drawn here int(x * (W / w)) is the    *)
(* exact quotient x * W / w truncated towards zero.                        *)
(***************************************************************************)
MaxSource == 2
MaxTarget == 2
MaxRaw == 3

DefaultWidth == 100
DefaultHeight == 50

min(a, b) == IF a <= b THEN a ELSE b
max(a, b) == IF a >= b THEN a ELSE b

\* int(value * (target / source)): truncation towards zero
scaled(value, source, target) ==
    IF value * target >= 0 THEN (value * target) \div source
    ELSE 0 - ((0 - value * target) \div source)

\* (a variant that bounds the value from below only)
clamp_from_below(low, value, high) == max(low, value)

\* max(low, min(value, high))
clamp(low, value, high) == max(low, min(value, high))

\* the part of _normalize_position after the zero check: the two divisions,
\* the scaling and the clamp
scale_position(x, y, original_image_size, slide_dimensions) ==
    IF original_image_size[1] = 0 \/ original_image_size[2] = 0
    THEN Raised("ZeroDivisionError", "division by zero")
    ELSE Returned([x |-> clamp(0, scaled(x, original_image_size[1], slide_dimensions[1]),
                               slide_dimensions[1]),
                   y |-> clamp(0, scaled(y, original_image_size[2], slide_dimensions[2]),
                               slide_dimensions[2])])

\* the part of _normalize_size after the zero check
scale_size(width, height, original_image_size, slide_dimensions) ==
    IF original_image_size[1] = 0 \/ original_image_size[2] = 0
    THEN Raised("ZeroDivisionError", "division by zero")
    ELSE Returned([width |-> clamp(1, scaled(width, original_image_size[1], slide_dimensions[1]),
                                   slide_dimensions[1]),
                   height |-> clamp(1, scaled(height, original_image_size[2], slide_dimensions[2]),
                                    slide_dimensions[2])])

\* (a variant that checks the width of the original image only)
normalize_position_width_check(position_data, original_image_size, slide_dimensions) ==
    IF original_image_size[1] = 0
    THEN Returned([x |-> 0, y |-> 0])
    ELSE scale_position(Get(position_data, "x", 0), Get(position_data, "y", 0),
                        original_image_size, slide_dimensions)

\* ImageAnalyzer._normalize_position
normalize_position(position_data, original_image_size, slide_dimensions) ==
    IF original_image_size[1] = 0 \/ original_image_size[2] = 0
    THEN Returned([x |-> 0, y |-> 0])
    ELSE scale_position(Get(position_data, "x", 0), Get(position_data, "y", 0),
                        original_image_size, slide_dimensions)

\* ImageAnalyzer._normalize_size
normalize_size(size_data, original_image_size, slide_dimensions) ==
    IF original_image_size[1] = 0 \/ original_image_size[2] = 0
    THEN Returned([width |-> DefaultWidth, height |-> DefaultHeight])
    ELSE scale_size(Get(size_data, "width", DefaultWidth), Get(size_data, "height", DefaultHeight),
                    original_image_size, slide_dimensions)

\* raw coordinate dicts with the two given keys, each absent or a number
RawNumbers == -1 .. MaxRaw
RawPairs(a, b) ==
    {EmptyDict} \cup {[k \in {a} |-> v] : v \in RawNumbers}
                \cup {[k \in {b} |-> v] : v \in RawNumbers}
                \cup {[k \in {a, b} |-> IF k = a THEN v ELSE w] : v, w \in RawNumbers}

InitNormalize ==
    /\ entry = "normalize"
    /\ run = IdleRun
    /\ calls = <<>>
    /\ coord = IdleCoord
    /\ wf = IdleWf
    /\ tasks = NoTasks
    /\ \E w, h \in 0 .. MaxSource : \E W, H \in 1 .. MaxTarget :
         \E name \in {"normalize_position", "normalize_size"} :
           \E data \in IF name = "normalize_position" THEN RawPairs("x", "y")
                       ELSE RawPairs("width", "height") :
               fn = [name |-> name, pc |-> "call", data |-> data,
                     original_image_size |-> <<w, h>>, slide_dimensions |-> <<W, H>>,
                     out |-> NoOutcome]

\* self._normalize_position(position_data, original_image_size, slide_dimensions)
NormalizePosition ==
    /\ entry = "normalize"
    /\ fn.name = "normalize_position"
    /\ fn.pc = "call"
    /\ fn' = [fn EXCEPT !.pc = "done",
                        !.out = normalize_position(fn.data, fn.original_image_size,
                                                   fn.slide_dimensions)]
    /\ UNCHANGED <<entry, run, calls, coord, wf, tasks>>

\* self._normalize_size(size_data, original_image_size, slide_dimensions)
NormalizeSize ==
    /\ entry = "normalize"
    /\ fn.name = "normalize_size"
    /\ fn.pc = "call"
    /\ fn' = [fn EXCEPT !.pc = "done",
                        !.out = normalize_size(fn.data, fn.original_image_size,
                                               fn.slide_dimensions)]
    /\ UNCHANGED <<entry, run, calls, coord, wf, tasks>>

(***************************************************************************)
(* API tasks: TaskManager (the status.json stored per task) and the        *)
(* background runners _run_create_workflow / _run_conversion_workflow      *)
(***************************************************************************)
MaxTasks == 2

\* the awaited or raising operations inside the runner's try block, in order
CreateRunnerSteps ==
    <<"update_processing", "write_markdown", "execute", "unlink_markdown",
      "update_uploading", "upload_file", "presigned_url", "count_pages",
      "set_task_result", "unlink_output">>
ConvertRunnerSteps ==
    <<"update_processing", "b64decode", "write_input", "execute",
      "update_uploading", "upload_file", "presigned_url", "count_pages",
      "set_task_result", "unlink_input", "unlink_output">>
RunnerSteps(kind) == IF kind = "create" THEN CreateRunnerSteps ELSE ConvertRunnerSteps

\* TaskManager.create_task: the task data first stored
create_task(kind) ==
    [kind |-> kind, pc |-> "try", step |-> 1,
     stored |-> [status |-> "pending", progress |-> None, result |-> None, error |-> None],
     log |-> <<"pending">>]

\* TaskManager.update_task_status / set_task_result / set_task_error: the
\* task data they upload
update_task_status(stored, status, progress) ==
    [stored EXCEPT !.status = status, !.progress = progress]

set_task_result(stored) ==
    [stored EXCEPT !.status = "completed", !.result = "result",
                   !.progress = None, !.error = None]

set_task_error(stored, error_code) ==
    [stored EXCEPT !.status = "failed", !.error = error_code,
                   !.progress = None, !.result = None]

\* one task's data replaced in the store
upload_json(t, stored) == [t EXCEPT !.stored = stored, !.log = Append(@, stored.status)]

\* what step `name` of the try block does to the stored task when it succeeds
try_step(t, name) ==
    CASE name = "update_processing" ->
             upload_json(t, update_task_status(t.stored, "processing", 0))
      [] name = "update_uploading" ->
             upload_json(t, update_task_status(t.stored, "processing", 80))
      [] name = "set_task_result" -> upload_json(t, set_task_result(t.stored))
      [] OTHER -> t

\* one step of the runner of task t, which returns (ok) or raises: in the try
\* block an exception goes to `except Exception`, whose set_task_error (and,
\* in the conversion runner, cleanup) may itself raise
runner_step(t, ok) ==
    CASE t.pc = "try" /\ ok ->
             [try_step(t, RunnerSteps(t.kind)[t.step]) EXCEPT
                 !.step = @ + 1,
                 !.pc = IF t.step = Len(RunnerSteps(t.kind)) THEN "done" ELSE "try"]
      [] t.pc = "try" /\ ~ok -> [t EXCEPT !.pc = "except"]
      [] t.pc = "except" /\ ok ->
             [upload_json(t, set_task_error(t.stored, "INTERNAL_ERROR")) EXCEPT
                 !.pc = IF t.kind = "convert" THEN "cleanup" ELSE "done"]
      [] t.pc = "cleanup" /\ ok -> [t EXCEPT !.pc = "done"]
      [] OTHER -> [t EXCEPT !.pc = "crashed"]

InitTasks ==
    /\ entry = "api"
    /\ run = IdleRun
    /\ calls = <<>>
    /\ coord = IdleCoord
    /\ wf = IdleWf
    /\ fn = IdleFn
    /\ tasks = NoTasks

\* POST /api/create, POST /api/convert: create_task, then the runner is
\* scheduled as a background task
ApiCreateTask ==
    /\ entry = "api"
    /\ Len(tasks) < MaxTasks
    /\ \E kind \in {"create", "convert"} : tasks' = Append(tasks, create_task(kind))
    /\ UNCHANGED <<entry, run, calls, coord, wf, fn>>

RunCreateWorkflow ==
    /\ \E id \in DOMAIN tasks : \E ok \in BOOLEAN :
           /\ tasks[id].kind = "create"
           /\ tasks[id].pc \in {"try", "except", "cleanup"}
           /\ tasks' = [tasks EXCEPT ![id] = runner_step(@, ok)]
    /\ UNCHANGED <<entry, run, calls, coord, wf, fn>>

RunConversionWorkflow ==
    /\ \E id \in DOMAIN tasks : \E ok \in BOOLEAN :
           /\ tasks[id].kind = "convert"
           /\ tasks[id].pc \in {"try", "except", "cleanup"}
           /\ tasks' = [tasks EXCEPT ![id] = runner_step(@, ok)]
    /\ UNCHANGED <<entry, run, calls, coord, wf, fn>>

(***************************************************************************)
(* Specifications, one per group of entry points                           *)
(***************************************************************************)
NextStep ==
    \/ StepInvoke
    \/ StepSleep

SpecStep == InitRunStep /\ [][NextStep]_vars

InitFanOut == InitAnalyze \/ InitCoordinator

NextFanOut ==
    \/ AnalyzeAcquire
    \/ AnalyzeLLMCall
    \/ AnalyzeReturn
    \/ AnalyzeRaise
    \/ CoordAcquire
    \/ CoordUnit
    \/ CoordFinish
    \/ CoordClearCache

SpecFanOut == InitFanOut /\ [][NextFanOut]_vars

\* one fan-out of either kind, with the event loop running its units fairly:
\* a unit that can take a slot, or that holds one, is eventually resumed
MaxSlotUnits == 2
MaxSlotConcurrent == 2

InitSlots ==
    /\ fn = IdleFn
    /\ tasks = NoTasks
    /\ run = IdleRun
    /\ wf = IdleWf
    /\ \E k \in 0 .. MaxSlotConcurrent :
           \/ /\ entry = "analyze_images"
              /\ \E n \in 0 .. MaxSlotUnits, amax \in 1 .. MaxAnalyzerRetries :
                     calls = <<analyze_images_enter(n, k, amax)>>
              /\ coord = IdleCoord
           \/ /\ entry = "generate_images"
              /\ calls = <<>>
              /\ \E requests \in RequestLists(MaxSlotUnits) \ {<<>>} :
                     coord = [NewCoord EXCEPT !.gcalls = <<generate_images_enter(requests, k)>>]

SpecSlots ==
    /\ InitSlots
    /\ [][NextFanOut]_vars
    /\ WF_vars(AnalyzeAcquire)
    /\ WF_vars(AnalyzeLLMCall)
    /\ WF_vars(CoordAcquire)
    /\ WF_vars(CoordUnit)

InitWorkflow == InitCreate \/ InitConvert

NextWorkflow ==
    \/ ExecuteStart
    \/ StepSleep
    \/ CreateParseMarkdown
    \/ CreateGenerateComposition
    \/ CreateParseComposition
    \/ CreateGenerateImages
    \/ CoordAcquire
    \/ CoordUnit
    \/ CreateImagesGenerated
    \/ CreateGeneratePowerpoint
    \/ ConvertLoadImages
    \/ ConvertAnalyzeImages
    \/ AnalyzeAcquire
    \/ AnalyzeLLMCall
    \/ ConvertImagesAnalyzed
    \/ ConvertAnalysisFailed
    \/ ConvertProcessImages
    \/ ConvertGeneratePowerpoint

SpecWorkflow == InitWorkflow /\ [][NextWorkflow]_vars

NextTasks ==
    \/ ApiCreateTask
    \/ RunCreateWorkflow
    \/ RunConversionWorkflow

SpecTasks == InitTasks /\ [][NextTasks]_vars

NextParser ==
    \/ Parse
    \/ ParseAgain
    \/ ParseOnNewParser

SpecParser == InitParser /\ [][NextParser]_vars

NextRender ==
    \/ BuildSlide

SpecRender == InitRender /\ [][NextRender]_vars

SpecGeometry == InitGeometry /\ [][NextParser]_vars

SpecText == InitText /\ [][NextParser]_vars

NextNormalize ==
    \/ NormalizePosition
    \/ NormalizeSize

SpecNormalize == InitNormalize /\ [][NextNormalize]_vars

NextBackfill ==
    \/ UpdateImagePaths

SpecBackfill == InitBackfill /\ [][NextBackfill]_vars

(***************************************************************************)
(* Properties                                                              *)
(***************************************************************************)
AllCalls == {calls[a] : a \in DOMAIN calls}
AllBatches == {coord.gcalls[c] : c \in DOMAIN coord.gcalls}

\* C1: within one _analyze_images call, or one generate_images call, made
\* with max_concurrent = k >= 1, never more than k of its units are between
\* acquiring and releasing a slot.
C1_AtMostKExecuting ==
    \A c \in AllCalls \cup AllBatches :
        c.max_concurrent >= 1 => Cardinality(Executing(c)) <= c.max_concurrent

\* the ceiling is reached while a further unit still waits for a slot
C1_Witness ==
    \E c \in AllCalls :
        /\ c.max_concurrent >= 1
        /\ Cardinality(Executing(c)) = c.max_concurrent
        /\ UnitsIn(c, {"waiting"}) # {}

\* C2: when every unit succeeds, _analyze_images returns one page per image,
\* the i-th page being the one analysed from the i-th image, whatever the
\* order in which the units finished.
C2_IndexAligned ==
    \A c \in AllCalls :
        c.state = "returned" =>
            /\ Len(c.result) = Len(c.images)
            /\ \A i \in DOMAIN c.images :
                   /\ c.result[i].image = c.images[i]
                   /\ c.result[i] = c.unit[i].result

\* a call has returned although its units finished out of input order
C2_Witness ==
    \E c \in AllCalls :
        /\ c.state = "returned"
        /\ Len(c.images) >= 2
        /\ c.finished # [i \in DOMAIN c.images |-> i]

\* C3: if a unit's analysis raised, _analyze_images does not return: it has
\* no page list, it raises a WorkflowError (the raise is what it can do next),
\* also when every other unit has completed successfully.
C3_Intolerant ==
    \A c \in AllCalls :
        /\ UnitsIn(c, {"failed"}) # {} =>
               /\ c.state \in {"awaiting", "raised"}
               /\ c.result = <<>>
               /\ (entry = "analyze_images" /\ c.state = "awaiting" => ENABLED AnalyzeRaise)
        /\ c.state = "raised" =>
               /\ c.error[1] = "WorkflowError"
               /\ UnitsIn(c, {"failed"}) # {}

\* the call has raised with all but one unit completed successfully
C3_Witness ==
    \E c \in AllCalls :
        /\ c.state = "raised"
        /\ Cardinality(UnitsIn(c, {"failed"})) = 1
        /\ Cardinality(UnitsIn(c, {"done"})) >= 1
        /\ UnitsIn(c, {"done", "failed"}) = DOMAIN c.unit

\* C4: for max_retries = m >= 1 the operation is invoked at most m times, and
\* when every invocation raises it is invoked exactly m times and the Step
\* Runner raises WorkflowStepError.
C4_AttemptCeiling ==
    LET inv == Invocations(run)
        allRaised == \A p \in DOMAIN inv : ~inv[p].out.ok
    IN  run.max_retries >= 1 =>
            /\ Len(inv) <= run.max_retries
            /\ run.pc = "raised" => Len(inv) = run.max_retries /\ allRaised
            /\ (allRaised /\ run.pc \notin {"call", "sleep"}) =>
                   Len(inv) = run.max_retries /\ run.pc = "raised"

\* a call with a budget of at least two has exhausted it
C4_Witness ==
    /\ entry = "run_step"
    /\ run.max_retries >= 2
    /\ run.pc = "raised"
    /\ Len(Invocations(run)) = run.max_retries

\* C5: an invocation that succeeds is the last thing the Step Runner does: it
\* has returned that invocation's value, after exactly (failures before it) + 1
\* invocations, and no invocation or wait follows it.
C5_ReturnsFirstSuccess ==
    LET inv == Invocations(run)
    IN  /\ \A p \in DOMAIN run.trace :
               (run.trace[p].ev = "call" /\ run.trace[p].out.ok) =>
                   /\ p = Len(run.trace)
                   /\ run.pc = "returned"
                   /\ run.result = run.trace[p].out.value
        /\ (run.pc = "returned" /\ run.max_retries >= 1) =>
               /\ inv # <<>>
               /\ inv[Len(inv)].out.ok
               /\ \A p \in 1 .. Len(inv) - 1 : ~inv[p].out.ok

\* two failures, then success on the third and last permitted invocation
C5_Witness ==
    /\ entry = "run_step"
    /\ run.max_retries = 3
    /\ run.pc = "returned"
    /\ Len(Invocations(run)) = 3
    /\ run.result \in Values

\* C6: the WorkflowStepError raised on exhaustion carries the step name given
\* to the Step Runner, attempt = max_retries, and the type name and message of
\* the exception of the last invocation.
C6_StepErrorFields ==
    LET inv == Invocations(run)
    IN  run.pc = "raised" =>
            /\ run.error.step_name = run.step_name
            /\ run.error.attempt = run.max_retries
            /\ run.error.error_type = inv[Len(inv)].out.error_type
            /\ run.error.original_error = inv[Len(inv)].out.error

\* exhaustion where the last exception differs from the first in type and message
C6_Witness ==
    LET inv == Invocations(run)
    IN  /\ entry = "run_step"
        /\ run.pc = "raised"
        /\ Len(inv) >= 2
        /\ inv[1].out.error_type # inv[Len(inv)].out.error_type
        /\ inv[1].out.error # inv[Len(inv)].out.error

\* the units of the coordinator's calls that returned a path for id
Served(id) ==
    {<<c, i>> \in (DOMAIN coord.gcalls) \X (1 .. MaxRequests) :
        /\ i \in DOMAIN coord.gcalls[c].unit
        /\ coord.gcalls[c].requests[i].id = id
        /\ coord.gcalls[c].unit[i].pc = "done"}

\* C7: as long as clear_cache has not been called, however many requests of
\* however many generate_images calls carry the same id, the generation for
\* that id is performed exactly once and every call gets the same path for it.
C7_GeneratedOnce ==
    ~coord.cleared =>
        \A id \in ImageIds :
            /\ coord.generations[id] <= 1
            /\ Served(id) # {} => coord.generations[id] = 1
            /\ \A s, t \in Served(id) :
                   coord.gcalls[s[1]].unit[s[2]].result = coord.gcalls[t[1]].unit[t[2]].result
            /\ \A g, h \in AllBatches :
                   (id \in DOMAIN g.generated_images /\ id \in DOMAIN h.generated_images) =>
                       g.generated_images[id] = h.generated_images[id]

\* two calls have both returned a path for the same id, with no clear_cache
C7_Witness ==
    /\ ~coord.cleared
    /\ Len(coord.gcalls) >= 2
    /\ \E id \in ImageIds :
           /\ coord.gcalls[1].state = "returned" /\ id \in DOMAIN coord.gcalls[1].generated_images
           /\ coord.gcalls[2].state = "returned" /\ id \in DOMAIN coord.gcalls[2].generated_images

\* C8: a generate_images call on a non-empty batch raises exactly when every
\* request failed, its message giving the number of failed requests; otherwise
\* it returns a dict whose keys are exactly the ids of the requests that
\* succeeded.
C8_TolerantBatch ==
    \A g \in AllBatches :
        (g.requests # <<>> /\ g.state # "awaiting") =>
            /\ g.state = "raised" <=> UnitsIn(g, {"failed"}) = DOMAIN g.unit
            /\ g.state = "raised" =>
                   g.error = all_failed_error(Cardinality(UnitsIn(g, {"failed"})))
            /\ g.state = "returned" =>
                   /\ g.error = <<>>
                   /\ DOMAIN g.generated_images =
                          {g.requests[i].id : i \in UnitsIn(g, {"done"})}

\* a batch has returned although one of its requests failed
C8_Witness ==
    \E g \in AllBatches :
        /\ g.state = "returned"
        /\ UnitsIn(g, {"failed"}) # {}
        /\ DOMAIN g.generated_images # {}

\* the _run_step calls of the execution made for stage `name`
RunsOf(name) == {i \in DOMAIN StageRuns : StageRuns[i].step_name = name}

\* C9: in one execution of Create or of Convert the PowerPoint generation runs
\* under at most one _run_step call, whose max_retries is 1: the generator is
\* invoked at most once, no retry wait is spent on it, and when that one
\* invocation raises, the step raises and the execution fails.
C9_RenderOnce ==
    /\ Cardinality(RunsOf("generate_powerpoint")) <= 1
    /\ \A i \in RunsOf("generate_powerpoint") :
           LET r == StageRuns[i]
               inv == Invocations(r)
           IN  /\ r.max_retries = 1
               /\ Len(inv) <= 1
               /\ Sleeps(r) = <<>>
               /\ (Len(inv) = 1 /\ ~inv[1].out.ok) =>
                      /\ r.pc = "raised"
                      /\ wf.status = "failed"
                      /\ wf.error.step_name = "generate_powerpoint"

\* an execution whose options allow retries, and that did retry an earlier
\* stage, fails on the one failed invocation of the generator
C9_Witness ==
    /\ wf.status = "failed"
    /\ wf.max_retries >= 2
    /\ run.step_name = "generate_powerpoint"
    /\ Len(Invocations(run)) = 1
    /\ \E i \in DOMAIN wf.history : Sleeps(wf.history[i]) # <<>>

\* C10: the composition parser is never retried: the _run_step call that
\* parses the model's composition invokes it at most once and spends no
\* retry wait, so a composition the parser rejects fails Create at once.
C10_ValidatorNotRetried ==
    \A i \in RunsOf("parse_composition") :
        LET r == StageRuns[i]
        IN  /\ Len(Invocations(r)) <= 1
            /\ Sleeps(r) = <<>>

\* the stages an execution goes through when none fails
StagePlan ==
    IF wf.kind = "create" /\ ~wf.generate_images
    THEN SelectSeq(CreateStages, LAMBDA n : n # "generate_images")
    ELSE Stages(wf)

\* C11: the _run_step calls of an execution follow the fixed order of the
\* stages; every call but the last has returned from a successful invocation,
\* so a stage is started only after the previous one succeeded, and a stage
\* that raised is the last one ever started (the execution has then failed).
C11_StagesInOrder ==
    /\ Len(StageRuns) <= Len(StagePlan)
    /\ \A i \in DOMAIN StageRuns : StageRuns[i].step_name = StagePlan[i]
    /\ \A i \in 1 .. Len(StageRuns) - 1 :
           LET inv == Invocations(StageRuns[i])
           IN  /\ StageRuns[i].pc = "returned"
               /\ inv # <<>>
               /\ inv[Len(inv)].out.ok
    /\ \A i \in DOMAIN StageRuns :
           StageRuns[i].pc = "raised" => i = Len(StageRuns) /\ wf.status = "failed"
    /\ wf.status = "completed" =>
           /\ Len(StageRuns) = Len(StagePlan)
           /\ run.pc = "returned"

\* a stage in the middle exhausts its retries after two stages succeeded:
\* the generator is never started
C11_Witness ==
    /\ wf.status = "failed"
    /\ run.pc = "raised"
    /\ Len(wf.history) >= 2
    /\ Len(Invocations(run)) >= 2
    /\ RunsOf("generate_powerpoint") = {}

\* the image elements of the deck whose asset failed: in Convert those whose
\* crop or save failed in _process_images, in Create those still holding the
\* placeholder of a requested generation after the back-fill
DegradedElements ==
    {e \in ElementsOf(wf.heap, wf.pages) :
        \/ wf.kind = "convert" /\ e \in wf.crop_failed
        \/ /\ wf.kind = "create"
           /\ wf.generate_images
           /\ \E i \in DOMAIN wf.composition.requests :
                  wf.heap[e].source = placeholder(wf.composition.requests[i].id)}

\* C12: no degraded deck reaches the generator: whenever the PowerPoint
\* generation has been invoked, no image element of the pages handed to it is
\* one whose generation or extraction failed.
C12_NoDegradedDeck ==
    \A i \in RunsOf("generate_powerpoint") :
        Invocations(StageRuns[i]) # <<>> => DegradedElements = {}

\* the per-page analyses executing now, over every _analyze_images call the
\* execution has made
RECURSIVE ExecutingUpTo(_)
ExecutingUpTo(a) ==
    IF a = 0 THEN 0 ELSE Cardinality(Executing(calls[a])) + ExecutingUpTo(a - 1)

\* C13: during one Convert execution, retries of the analysis stage included,
\* the number of per-page analyses executing at the same time, units left over
\* from a failed attempt counted, never exceeds max_concurrent.
C13_ExecutionWideLimit ==
    wf.kind = "convert" => ExecutingUpTo(Len(calls)) <= wf.max_concurrent

\* C14: the first unit failure aborts the siblings: once _analyze_images has
\* raised, a unit of that call that was waiting for a slot stays waiting (it
\* never enters the semaphore, so it makes no analyze_image call).
C14_SiblingsAborted ==
    [][\A a \in DOMAIN calls :
           calls[a].state = "raised" =>
               \A i \in UnitsIn(calls[a], {"waiting"}) :
                   calls'[a].unit[i].pc = "waiting"]_vars

\* the number of invocations among the first k events of a _run_step call
CallsUpTo(r, k) == Len(SelectSeq(SubSeq(r.trace, 1, k), LAMBDA e : e.ev = "call"))

\* C15: what _run_step does after a failed invocation depends only on how
\* many invocations were made, not on the exception: whatever its type, a
\* failure before the max_retries-th invocation is followed by the wait of
\* retry_delay (and so by another invocation), and only the max_retries-th
\* failure ends the call, with WorkflowStepError.
C15_KindBlind ==
    \A k \in DOMAIN run.trace :
        (run.trace[k].ev = "call" /\ ~run.trace[k].out.ok) =>
            IF CallsUpTo(run, k) < run.max_retries
            THEN IF k = Len(run.trace)
                 THEN run.pc = "sleep"
                 ELSE /\ run.trace[k + 1].ev = "sleep"
                      /\ run.trace[k + 1].delay = run.retry_delay
            ELSE k = Len(run.trace) /\ run.pc = "raised"

\* an operation that fails authentication on every attempt uses up all of
\* three attempts and both waits
C15_Witness ==
    /\ entry = "run_step"
    /\ run.pc = "raised"
    /\ run.max_retries = 3
    /\ Len(Sleeps(run)) = 2
    /\ \A k \in DOMAIN Invocations(run) :
           Invocations(run)[k].out.error_type = "LLMAuthenticationError"

\* C16: for every max_retries, zero and negative included, a _run_step call
\* that has ended either raised WorkflowStepError or returned the value of an
\* invocation that succeeded; it never returns without such an invocation.
C16_ValueOrStepError ==
    LET inv == Invocations(run)
    IN  /\ run.pc = "returned" =>
               /\ inv # <<>>
               /\ inv[Len(inv)].out.ok
               /\ run.result = inv[Len(inv)].out.value
        /\ run.pc = "raised" => run.error # NoStepError

\* C17: the cache changes in two ways only: a generation that succeeded for
\* an id not in the cache adds that id's entry and nothing else, and
\* clear_cache empties it.  A cache hit, a failed generation and everything
\* else leave it as it is: no entry is ever dropped or overwritten by
\* generating, so the cache holds the ids generated since the last clear.
C17_CacheTransitions ==
    [][\/ /\ coord'.cache = coord.cache
          /\ coord'.generations = coord.generations
       \/ \E id \in ImageIds \ DOMAIN coord.cache :
              /\ coord'.cache = DictSet(coord.cache, id, generated_path(id))
              /\ coord'.generations = [coord.generations EXCEPT ![id] = @ + 1]
       \/ coord' = clear_cache(coord)]_vars

\* after a clear_cache an id was generated again and is cached next to
\* nothing else, while a request for the other id has failed
C17_Witness ==
    /\ entry = "generate_images"
    /\ coord.cleared
    /\ \E id \in ImageIds :
           /\ DOMAIN coord.cache = {id}
           /\ coord.generations[id] = 2
           /\ \E g \in AllBatches : \E i \in UnitsIn(g, {"failed"}) : g.requests[i].id # id

\* C18: when a stage has exhausted its retries, the execution has failed with
\* that _run_step call's WorkflowStepError and nothing else: its step_name is
\* the stage that failed, its attempt is the max_retries the stage was run
\* with, which is also the number of invocations made; in Convert this holds
\* whether or not the removal of temp_dir succeeded.
C18_OneStepError ==
    \A i \in DOMAIN StageRuns :
        StageRuns[i].pc = "raised" =>
            /\ wf.status = "failed"
            /\ wf.error_type = "WorkflowStepError"
            /\ wf.error = StageRuns[i].error
            /\ wf.error.step_name = StagePlan[i]
            /\ wf.error.attempt = stage_budget(wf, StagePlan[i])
            /\ wf.error.attempt = Len(Invocations(StageRuns[i]))

\* Convert's analysis stage fails after two attempts and the cleanup fails too
C18_Witness ==
    /\ wf.kind = "convert"
    /\ wf.status = "failed"
    /\ wf.temp_dir = "present"
    /\ run.pc = "raised"
    /\ wf.error.step_name = "analyze_images"
    /\ wf.error.attempt = 2

C20_ExtractionFrame ==
    (wf.kind = "convert" /\ wf.processed) =>
        PagesValue(wf.heap, wf.produced.pages) = wf.produced.value

\* the pages an _update_image_paths call got through, each as the elements
\* it was given and the elements built for them: all pages of a call that
\* returned, the one page whose elements were built of a call that raised
Backfilled ==
    IF fn.pc = "returned"
    THEN [i \in DOMAIN fn.pages |->
             [given |-> fn.given[fn.pages[i]].elements,
              built |-> fn.heap[fn.result[i]].elements]]
    ELSE IF fn.pc = "raised"
         THEN <<[given |-> fn.given[fn.pages[1]].elements, built |-> fn.updated_elements]>>
         ELSE <<>>

\* C21: the back-fill changes nothing but the source of matched Image
\* elements: the call returns as many pages as it was given, each page with
\* its fields as they were and as many elements, each element being the one
\* given, but for the source of an ImageElement whose source holds a
\* generated id.
C21_OnlySourceChanges ==
    (fn.name = "update_image_paths" /\ fn.pc # "call") =>
        /\ fn.pc = "returned"
        /\ Len(fn.result) = Len(fn.pages)
        /\ \A i \in DOMAIN fn.pages :
               LET old == fn.given[fn.pages[i]]
                   new == fn.heap[fn.result[i]]
               IN  /\ [new EXCEPT !.elements = <<>>] = [old EXCEPT !.elements = <<>>]
                   /\ Len(new.elements) = Len(old.elements)
                   /\ \A j \in DOMAIN old.elements :
                          LET e == fn.given[old.elements[j]]
                              f == fn.heap[new.elements[j]]
                          IN  IF e.cls = "ImageElement"
                                   /\ MatchingIds(e.source, fn.generated_images) # <<>>
                              THEN f = [e EXCEPT !.source = f.source]
                              ELSE f = e

\* C23: the back-fill gives each Image element the path generated for its
\* own id: an element given with the placeholder of id X, X being among the
\* generated ids, is replaced by one whose source is the path generated for
\* X, whatever other ids were generated.
C23_OwnPath ==
    \A p \in DOMAIN Backfilled : \A j \in DOMAIN Backfilled[p].given :
        \A k \in DOMAIN fn.generated_images :
            LET e == fn.given[Backfilled[p].given[j]]
                f == fn.heap[Backfilled[p].built[j]]
                item == fn.generated_images[k]
            IN  (e.cls = "ImageElement" /\ e.source = placeholder(item.image_id)) =>
                    f.source = item.generated_path

\* the place of a status in the lifecycle
StatusRank(status) ==
    CASE status = "pending" -> 1
      [] status = "processing" -> 2
      [] OTHER -> 3

\* C22: the statuses stored for a task, in the order they were stored, never
\* go back in the lifecycle pending, processing, completed or failed, and
\* nothing is stored after completed or failed.
C22_TerminalStatus ==
    \A id \in DOMAIN tasks : \A i \in 1 .. Len(tasks[id].log) - 1 :
        /\ tasks[id].log[i] \notin {"completed", "failed"}
        /\ StatusRank(tasks[id].log[i]) <= StatusRank(tasks[id].log[i + 1])

\* C24 as stated: a Convert execution that has failed has no temporary
\* directory: the directory is not created before the validation has passed,
\* and when a stage failed it has been removed by the time execute raises,
\* the error raised being that stage's WorkflowStepError whether or not the
\* removal succeeded.
C24_TempDirRemoved ==
    (wf.kind = "convert" /\ wf.status = "failed") =>
        /\ wf.temp_dir = "absent"
        /\ run.pc = "raised" =>
               /\ wf.error_type = "WorkflowStepError"
               /\ wf.error = run.error

\* C24 as amended: when a stage of a Convert execution failed, execute has
\* tried to remove the temporary directory before raising: the directory is
\* gone unless that removal itself failed, and in both cases the error raised
\* is the failing stage's WorkflowStepError; an execution that failed before
\* any stage (validation, mkdir) has created no directory and removed none.
C24_TempDirCleanup ==
    (wf.kind = "convert" /\ wf.status = "failed") =>
        /\ StageRuns = <<>> => wf.temp_dir = "absent" /\ wf.cleanup = "none"
        /\ run.pc = "raised" =>
               /\ wf.cleanup \in {"removed", "failed"}
               /\ wf.temp_dir = "present" <=> wf.cleanup = "failed"
               /\ wf.error_type = "WorkflowStepError"
               /\ wf.error = run.error
               /\ wf.error.step_name = run.step_name

\* the extraction stage failed after two stages succeeded, and the removal
\* of the temporary directory failed as well
C24_Witness ==
    /\ wf.kind = "convert"
    /\ wf.status = "failed"
    /\ run.step_name = "process_images"
    /\ run.pc = "raised"
    /\ wf.cleanup = "failed"
    /\ wf.temp_dir = "present"

\* C25: the pages Convert hands to the generator are numbered by position:
\* whenever the PowerPoint generation has been invoked, page i of the list
\* has page number i, whatever page number the model's answer gave.
C25_NumberedByPosition ==
    \A i \in RunsOf("generate_powerpoint") :
        (wf.kind = "convert" /\ Invocations(StageRuns[i]) # <<>>) =>
            \A p \in DOMAIN wf.pages : wf.heap[wf.pages[p]].page_number = p


Recognized(data) == Get(data, "type", None) \in {"text", "image"}

\* the raw element has every field its type requires
HasRequired(data) ==
    /\ {"position", "size"} \subseteq DOMAIN data
    /\ Get(data, "type", None) = "text" => "content" \in DOMAIN data
    /\ Get(data, "type", None) = "image" => "source" \in DOMAIN data

\* the raw composition holds nothing the parser rejects, unknown element
\* types aside
Acceptable(composition) ==
    /\ Get(composition.slide_config, "size", "16:9") \in SlideSizes
    /\ \A p \in DOMAIN composition.pages :
           \A e \in DOMAIN composition.pages[p].elements :
               LET data == composition.pages[p].elements[e]
               IN  Recognized(data) => HasRequired(data) /\ SizeValid(data.size)

\* the parsed element is the raw element: same kind, place, size and content
SameElement(element, data) ==
    /\ element.cls = (IF data.type = "text" THEN "TextElement" ELSE "ImageElement")
    /\ element.position = data.position
    /\ element.size = data.size
    /\ IF data.type = "text" THEN element.content = data.content
                             ELSE element.source = data.source

\* C27: of a page with elements of an unrecognized type, parse returns the
\* recognized elements only, in their order and unchanged, with the page's
\* title, and raises nothing.
C27_UnknownDropped ==
    (/\ entry = "parse"
     /\ Acceptable(fn.composition)
     /\ \E p \in DOMAIN fn.composition.pages :
            \E e \in DOMAIN fn.composition.pages[p].elements :
                ~Recognized(fn.composition.pages[p].elements[e])) =>
        \A r \in DOMAIN fn.results :
            LET out == fn.results[r].out
            IN  /\ out.ok
                /\ \A p \in DOMAIN fn.composition.pages :
                       LET data == fn.composition.pages[p]
                           kept == SelectSeq(data.elements, Recognized)
                       IN  /\ Len(out.pages[p].elements) = Len(kept)
                           /\ \A k \in DOMAIN kept : SameElement(out.pages[p].elements[k], kept[k])
                           /\ "title" \in DOMAIN data => out.pages[p].title = data.title

\* C28: the i-th raw page gives the page numbered i, as many pages come out
\* as went in, and a page number in the raw page changes nothing.
C28_NumberedByPosition ==
    entry = "parse" =>
        \A r \in DOMAIN fn.results :
            LET out == fn.results[r].out
            IN  out.ok =>
                    /\ Len(out.pages) = Len(fn.composition.pages)
                    /\ \A i \in DOMAIN out.pages :
                           /\ out.pages[i].page_number = i
                           /\ out.pages[i].title = Get(fn.composition.pages[i], "title", "")

C28_Witness ==
    /\ entry = "parse"
    /\ fn.results # <<>>
    /\ fn.results[1].out.ok
    /\ Len(fn.composition.pages) = 2
    /\ "page_number" \in DOMAIN fn.composition.pages[1]
    /\ "title" \in DOMAIN fn.composition.pages[2]
    /\ fn.results[1].out.pages[1].page_number = 1
    /\ fn.results[1].out.pages[2].page_number = 2

\* an element of the raw page lacks a field it requires
LacksField(page_data) ==
    \E e \in DOMAIN page_data.elements :
        Recognized(page_data.elements[e]) /\ ~HasRequired(page_data.elements[e])

\* the parser accepts every raw page before page p
AcceptableBefore(composition, p) ==
    Acceptable([composition EXCEPT !.pages = SubSeq(@, 1, p - 1)])

\* C29: when an element of some page lacks a field it requires, parse_pages
\* raises WorkflowValidationError naming that page and returns no pages, the
\* pages before that one included.
C29_MissingFieldRejected ==
    entry = "parse" =>
        \A r \in DOMAIN fn.results :
            \A p \in DOMAIN fn.composition.pages :
                (LacksField(fn.composition.pages[p]) /\ AcceptableBefore(fn.composition, p))
                    => /\ ~fn.results[r].out.ok
                       /\ fn.results[r].out.error_type = "WorkflowValidationError"
                       /\ fn.results[r].out.page = p
                       /\ fn.results[r].out.pages = None

(***************************************************************************)
(* Renderer                                                                *)
(***************************************************************************)
\* the place of a shape's element in the list the page was given with
GivenIndex(shape) ==
    CHOOSE i \in DOMAIN fn.given.elements : render(fn.given.elements[i]) = shape

\* the shapes are the page's elements, back to front, elements of one
\* z-index in the order they were inserted
PlacedInZOrder ==
    /\ Len(fn.slide) = Len(fn.given.elements)
    /\ \A i \in DOMAIN fn.given.elements :
           \E s \in DOMAIN fn.slide : fn.slide[s] = render(fn.given.elements[i])
    /\ \A s, t \in DOMAIN fn.slide :
           s < t => \/ fn.slide[s].z_index < fn.slide[t].z_index
                    \/ /\ fn.slide[s].z_index = fn.slide[t].z_index
                       /\ GivenIndex(fn.slide[s]) < GivenIndex(fn.slide[t])

\* C30: a rendered page has its elements placed by ascending z-index, equal
\* z-indexes in insertion order, and the page's stored elements list is
\* still in the order of insertion.
C30_RenderNonDestructive ==
    entry = "build_slide" /\ fn.builds > 0 =>
        /\ PlacedInZOrder
        /\ fn.page.elements = fn.given.elements


(***************************************************************************)
(* Composition Validator: geometry                                         *)
(***************************************************************************)
\* the raw element's position is non-negative and its size positive
GeometryInRange(data) ==
    /\ data.position.x >= 0 /\ data.position.y >= 0
    /\ data.size.width >= 1 /\ data.size.height >= 1

\* C31: every element of a returned page has x >= 0, y >= 0, width >= 1 and
\* height >= 1; a raw element outside these ranges is rejected with the
\* validator's error and gives no element.
C31_GeometryInRange ==
    entry = "parse" =>
        \A r \in DOMAIN fn.results :
            LET out == fn.results[r].out
            IN  /\ out.ok =>
                       \A p \in DOMAIN out.pages : \A e \in DOMAIN out.pages[p].elements :
                           GeometryInRange(out.pages[p].elements[e])
                /\ (\E p \in DOMAIN fn.composition.pages :
                        \E e \in DOMAIN fn.composition.pages[p].elements :
                            LET data == fn.composition.pages[p].elements[e]
                            IN  /\ Recognized(data) /\ HasRequired(data)
                                /\ ~GeometryInRange(data))
                       => ~out.ok /\ out.error_type = "WorkflowValidationError"


(***************************************************************************)
(* Coordinate normalisation                                                *)
(***************************************************************************)
\* a call on an original image with both dimensions positive has returned
NormalizedPositive ==
    /\ entry = "normalize"
    /\ fn.pc = "done"
    /\ fn.original_image_size[1] > 0
    /\ fn.original_image_size[2] > 0

\* C32: for an original size with both dimensions positive, the normalised
\* position lies in [0,W] x [0,H] and the normalised size in [1,W] x [1,H],
\* whatever the raw values; ({100,100}, (960,540), (1920,1080)) gives
\* {200,200}.
C32_NormalizedInRange ==
    /\ normalize_position([x |-> 100, y |-> 100], <<960, 540>>, <<1920, 1080>>)
           = Returned([x |-> 200, y |-> 200])
    /\ NormalizedPositive =>
           /\ fn.out.ok
           /\ fn.name = "normalize_position" =>
                  /\ fn.out.value.x \in 0 .. fn.slide_dimensions[1]
                  /\ fn.out.value.y \in 0 .. fn.slide_dimensions[2]
           /\ fn.name = "normalize_size" =>
                  /\ fn.out.value.width \in 1 .. fn.slide_dimensions[1]
                  /\ fn.out.value.height \in 1 .. fn.slide_dimensions[2]

\* a raw x that scales beyond the slide has been clamped to its width
C32_Witness ==
    /\ NormalizedPositive
    /\ fn.name = "normalize_position"
    /\ "x" \in DOMAIN fn.data
    /\ fn.data.x * fn.slide_dimensions[1] > fn.slide_dimensions[1] * fn.original_image_size[1]
    /\ fn.out.value.x = fn.slide_dimensions[1]

\* C33: when the width or the height of the original image is 0, the
\* position returned is {0,0} and the size returned is {100,50}, for every
\* raw input, and nothing is raised.
C33_ZeroSourceFallback ==
    (/\ entry = "normalize"
     /\ fn.pc = "done"
     /\ fn.original_image_size[1] = 0 \/ fn.original_image_size[2] = 0)
        => /\ fn.name = "normalize_position" => fn.out = Returned([x |-> 0, y |-> 0])
           /\ fn.name = "normalize_size" => fn.out = Returned([width |-> 100, height |-> 50])

\* a position was normalised against an original image of height 0 only,
\* with raw values present
C33_Witness ==
    /\ entry = "normalize"
    /\ fn.pc = "done"
    /\ fn.name = "normalize_position"
    /\ fn.original_image_size[1] > 0
    /\ fn.original_image_size[2] = 0
    /\ DOMAIN fn.data = {"x", "y"}
    /\ fn.out.ok


(***************************************************************************)
(* Composition Validator: defaults and alignment                           *)
(***************************************************************************)
\* the one raw element of the one raw page
TheRawElement == fn.composition.pages[1].elements[1]

\* C34: an empty deck config gives size 16:9 and theme default, and a text
\* element that gives only type, position, size and content is parsed with
\* font Arial, 18, #000000, not bold, italic or underlined, alignment left
\* and z-index 0.
C34_DefaultsApplied ==
    /\ parse_slide_config(EmptyDict).ok
    /\ parse_slide_config(EmptyDict).slide_config = [size |-> "16:9", theme |-> "default"]
    /\ (/\ entry = "parse"
        /\ fn.composition.slide_config = EmptyDict
        /\ DOMAIN TheRawElement = {"type", "position", "size", "content"}
        /\ TheRawElement.type = "text") =>
           \A r \in DOMAIN fn.results :
               LET out == fn.results[r].out
               IN  /\ out.ok
                   /\ out.slide_config = [size |-> "16:9", theme |-> "default"]
                   /\ out.pages[1].elements[1].font =
                          [family |-> "Arial", size |-> 18, color |-> [hex_value |-> "#000000"],
                           bold |-> FALSE, italic |-> FALSE, underline |-> FALSE]
                   /\ out.pages[1].elements[1].alignment = "left"
                   /\ out.pages[1].elements[1].z_index = 0

\* the string in lower case
Lower(str) ==
    CASE str \in {"CENTER", "Center"} -> "center"
      [] str = "RIGHT" -> "right"
      [] OTHER -> str

\* C35: the alignment string is matched in lower case: a case variant of
\* left, center, right or justify gives that alignment, any other string
\* gives left, and the string never makes the parse raise.
C35_AlignmentLowerCased ==
    (/\ entry = "parse"
     /\ fn.composition.slide_config = EmptyDict
     /\ {"alignment", "font"} \subseteq DOMAIN TheRawElement
     /\ TheRawElement.font.color.json = "object") =>
        \A r \in DOMAIN fn.results :
            LET out == fn.results[r].out
            IN  /\ out.ok
                /\ out.pages[1].elements[1].alignment =
                       IF Lower(TheRawElement.alignment) \in Alignments
                       THEN Lower(TheRawElement.alignment) ELSE "left"


(***************************************************************************)
(* Step Runner: waits                                                      *)
(***************************************************************************)
\* C36: _run_step waits retry_delay exactly once between two consecutive
\* attempts: every wait follows a failed attempt and lasts retry_delay, every
\* attempt but the last is followed by one wait, and a call that has ended
\* after a attempts has made a - 1 waits, none of them after its last attempt.
C36_OneWaitBetweenAttempts ==
    /\ \A i \in DOMAIN run.trace :
           run.trace[i].ev = "sleep" =>
               /\ run.trace[i].delay = run.retry_delay
               /\ i > 1
               /\ run.trace[i - 1].ev = "call"
               /\ ~run.trace[i - 1].out.ok
    /\ \A i \in DOMAIN run.trace :
           (run.trace[i].ev = "call" /\ i < Len(run.trace)) =>
               /\ run.trace[i + 1].ev = "sleep"
               /\ (i + 1 < Len(run.trace) \/ run.pc = "call")
    /\ (run.pc \in {"returned", "raised"} /\ run.trace # <<>>) =>
           /\ run.trace[Len(run.trace)].ev = "call"
           /\ Len(Sleeps(run)) = Len(Invocations(run)) - 1

\* a call has raised after three attempts and two waits of more than the
\* smallest delay
C36_Witness ==
    /\ entry = "run_step"
    /\ run.pc = "raised"
    /\ Len(Invocations(run)) = 3
    /\ Len(Sleeps(run)) = 2
    /\ run.retry_delay = 2


(***************************************************************************)
(* Concurrency slots                                                       *)
(***************************************************************************)
\* unit i of fan-out c, which has at least one slot, has not got a slot yet
WaitsForSlot(c, i) ==
    i \in DOMAIN c.unit /\ c.max_concurrent >= 1 /\ c.unit[i].pc = "waiting"

\* unit i of fan-out c, if there is one, has got a slot and has finished, by
\* return or by exception
HasRun(c, i) == i \in DOMAIN c.unit => c.unit[i].pc \in {"done", "failed"}

\* the free slots of c are max_concurrent less the units that hold one, and
\* all of them are free once every unit has finished
SlotsAccounted(c) ==
    /\ c.semaphore = c.max_concurrent - Cardinality(Executing(c))
    /\ UnitsIn(c, {"done", "failed"}) = DOMAIN c.unit => c.semaphore = c.max_concurrent

\* C37: a slot is given back when its unit finishes, by return or by
\* exception: the free slots are always max_concurrent less the units that
\* hold one, all of them are free once every unit has finished, and with
\* max_concurrent >= 1 every unit eventually gets a slot and runs to its end.
C37_NoSlotLeak ==
    /\ []((\A c \in AllCalls : SlotsAccounted(c)) /\ (\A c \in AllBatches : SlotsAccounted(c)))
    /\ \A i \in 1 .. MaxSlotUnits :
           ((\E c \in AllCalls : WaitsForSlot(c, i)) \/ (\E c \in AllBatches : WaitsForSlot(c, i)))
               ~> ((\A c \in AllCalls : HasRun(c, i)) /\ (\A c \in AllBatches : HasRun(c, i)))

\* with one slot for two units, the first unit has raised and the second
\* has run after it
C37_Witness ==
    \E c \in AllCalls :
        /\ c.max_concurrent = 1
        /\ Len(c.unit) = 2
        /\ c.unit[1].pc = "failed"
        /\ c.unit[2].pc = "done"


(***************************************************************************)
(* Model calls per page                                                    *)
(***************************************************************************)
\* the analyze_image calls the units for page p have made, over the first a
\* _analyze_images calls of the execution
RECURSIVE ModelCallsUpTo(_, _)
ModelCallsUpTo(a, p) ==
    IF a = 0 THEN 0
    ELSE (IF p \in DOMAIN calls[a].unit THEN calls[a].unit[p].attempt ELSE 0)
             + ModelCallsUpTo(a - 1, p)

\* C38: one analyze_slide_image invocation makes at most analyzer.max_retries
\* analyze_image calls, and it raises ImageAnalysisError only after exactly
\* max_retries calls, all of them failed (attempt = max_retries); over one
\* Convert execution the analysis stage is attempted at most max_retries times
\* and a page is sent to the model at most
\* max_retries * analyzer.max_retries times.
C38_ModelCallCeiling ==
    wf.kind = "convert" =>
        /\ \A a \in DOMAIN calls : \A i \in DOMAIN calls[a].unit :
               LET u == calls[a].unit[i]
               IN  /\ u.attempt <= calls[a].analyzer_max_retries
                   /\ u.error = "ImageAnalysisError" =>
                          u.pc = "failed" /\ u.attempt = calls[a].analyzer_max_retries
        /\ Len(calls) <= wf.max_retries
        /\ \A p \in 1 .. MaxPages :
               ModelCallsUpTo(Len(calls), p) <= wf.max_retries * wf.analyzer_max_retries

\* every attempt of the analysis stage failed on page 1 after using up the
\* analyzer's retries: the page was sent the full number of times
C38_Witness ==
    /\ wf.kind = "convert"
    /\ wf.max_retries >= 2
    /\ wf.analyzer_max_retries >= 2
    /\ wf.status = "failed"
    /\ ModelCallsUpTo(Len(calls), 1) = wf.max_retries * wf.analyzer_max_retries
    /\ \A a \in DOMAIN calls : calls[a].unit[1].error = "ImageAnalysisError"

(***************************************************************************)
(* A fan-out without slots                                                 *)
(***************************************************************************)
\* nothing has happened in fan-out c: every unit still waits for a slot and
\* the call is still awaiting its gather, with no result and no error
Stalled(c) ==
    /\ \A i \in DOMAIN c.unit : c.unit[i].pc = "waiting"
    /\ c.semaphore = 0
    /\ c.state = "awaiting"
    /\ c.error = <<>>

\* C39: with max_concurrent = 0 and at least one unit, no unit of
\* _analyze_images or of generate_images ever gets a slot: no analyze_image
\* call and no image generation is made, no unit and no call raises, and the
\* call neither returns nor raises.
C39_ZeroSlotsStall ==
    /\ \A c \in AllCalls :
           (c.max_concurrent = 0 /\ Len(c.unit) >= 1) =>
               /\ Stalled(c)
               /\ \A i \in DOMAIN c.unit : c.unit[i].attempt = 0 /\ c.unit[i].error = ""
               /\ c.result = <<>>
    /\ \A g \in AllBatches :
           (g.max_concurrent = 0 /\ Len(g.unit) >= 1) =>
               /\ Stalled(g)
               /\ g.generated_images = EmptyDict
               /\ \A id \in ImageIds : coord.generations[id] = 0

\* an analysis of two images entered with max_concurrent = 0
C39_Witness ==
    /\ entry = "analyze_images"
    /\ \E c \in AllCalls : c.max_concurrent = 0 /\ Len(c.unit) = 2 /\ Stalled(c)
========================================================================
